---- MODULE Spec2Model ----
(***************************************************************************)
(* A model of the content-addressable version-control engine in            *)
(* src/merkle_tree: HashCalculator, the object model (Blob, Tree, Commit,  *)
(* Tag), ObjectDatabase, MerkleTree and Repository.                        *)
(*                                                                         *)
(* Text.  A Python str / bytes value is a sequence of atoms.  An atom is   *)
(* a tuple: <<c>> is a lexeme (one character, or a fixed keyword of the    *)
(* on-disk format), <<"sha1", data>> is the 40 hex characters of the SHA-1 *)
(* digest of the byte string data.  SHA-1 is modelled as collision free:   *)
(* the digest carries the bytes it was computed from.                      *)
(***************************************************************************)
EXTENDS Naturals, Sequences, FiniteSets, TLC

VARIABLES
    objfiles,   \* .pygit/objects: storage key -> bytes of the object file
    stored,     \* history: the hashes store_object was called with and
                \* delete_object has not removed since
    tampered,   \* history: storage key -> how its file, still there, was corrupted
                \* from outside
    tree,       \* a Tree object under test (entries and its two caches)
    wt,         \* the working directory without .pygit: name -> file or directory
    meta,       \* .pygit: whether it exists, the HEAD, ref, config and index files
    handle,     \* the open Repository objects: is_valid_repo, config, head
    history,    \* history: the hashes the successful commit calls returned, oldest first
    clean,      \* history: a commit succeeded and the working directory is as it was then
    index,      \* the open Index objects: the entries dict, in insertion order
    terminals,  \* the bash processes started, by terminal id; listed: in _terminals
    uuids,      \* history: the ids uuid4() has returned
    pending,    \* the tool calls that have begun and not returned: thread -> call
    last        \* what the last operation was given and what it returned

vars == <<objfiles, stored, tampered, tree, wt, meta, handle, history, clean, index,
          terminals, uuids, pending, last>>

(***************************************************************************)
(* Optional values: None is <<>>, a value x is <<x>>.                      *)
(***************************************************************************)
None == <<>>
Some(x) == <<x>>
IsNone(o) == Len(o) = 0
Val(o) == o[1]

(***************************************************************************)
(* Characters.                                                             *)
(***************************************************************************)
SP == <<" ">>
TAB == <<"\t">>
LF == <<"\n">>
NUL == <<"NUL">>
\* a character outside ASCII: one character, two bytes in UTF-8
EACUTE == <<"U+00E9">>
UTF8_HI == <<"0xC3">>
UTF8_LO == <<"0xA9">>

IsDigest(a) == Len(a) = 2
IsSpace(a) == a \in {SP, TAB, LF}

\* Number of characters a lexeme stands for.
LexLen(s) ==
    CASE s \in {"tree", "blob", "type"} -> 4
      [] s = "tag" -> 3
      [] s \in {"parent", "author", "commit", "object", "tagger"} -> 6
      [] s = "committer" -> 9
      [] s \in {"100644", "100755", "040000"} -> 6
      [] s \in {".pygit", "absent"} -> 6
      [] s = "blub" -> 4
      [] s = ".DS_Store" -> 9
      [] s = "__pycache__" -> 11
      [] s = "refs/tags/" -> 10
      [] s = "ref: refs/heads/main" -> 20
      [] s = ".git" -> 4
      [] s = "2024-01-01" -> 10
      [] s = "00:00:" -> 6
      [] s = "ref: " -> 5
      [] s = "refs/heads/main" -> 15
      [] s = "Unknown User" -> 12
      [] s = "unknown@example.com" -> 19
      [] s = "{\n  \"version\": " -> 15
      [] s = ",\n  \"entries\": []\n}" -> 19
      [] s = ",\n  \"entries\": [\n" -> 17
      [] s = "\n  ]\n}" -> 6
      [] s = "    {\n      \"path\": \"" -> 21
      [] s = "\",\n      \"mode\": \"" -> 18
      [] s = "\",\n      \"blob_hash\": \"" -> 23
      [] s = "\",\n      \"size\": " -> 17
      [] s = ",\n      \"mtime\": " -> 17
      [] s = ",\n      \"stage\": " -> 17
      [] s = "\n    }" -> 6
      [] s = ",\n" -> 2
      [] s = "{\n  \"core\": {\n    \"bare\": false,\n    \"repositoryformatversion\": 0\n  },\n  \"user\": {\n    \"name\": \"" -> 96
      [] s = "\",\n    \"email\": \"" -> 17
      [] s = "\"\n  }\n}" -> 7
      [] s = "HEAD" -> 4
      [] s = "config" -> 6
      [] s = "index" -> 5
      [] OTHER -> 1

AtomLen(a) == IF IsDigest(a) THEN 40 ELSE LexLen(a[1])

\* len(s) of a str or bytes value
RECURSIVE StrLen(_)
StrLen(s) == IF s = <<>> THEN 0 ELSE AtomLen(Head(s)) + StrLen(Tail(s))

\* str.encode('utf-8') and bytes.decode('utf-8')
RECURSIVE encode(_)
encode(s) ==
    IF s = <<>> THEN <<>>
    ELSE (IF Head(s) = EACUTE THEN <<UTF8_HI, UTF8_LO>> ELSE <<Head(s)>>)
         \o encode(Tail(s))

RECURSIVE decode(_)
decode(b) ==
    IF b = <<>> THEN <<>>
    ELSE IF Len(b) >= 2 /\ b[1] = UTF8_HI /\ b[2] = UTF8_LO
         THEN <<EACUTE>> \o decode(SubSeq(b, 3, Len(b)))
         ELSE <<Head(b)>> \o decode(Tail(b))

\* str(n) for a natural number
Digit(d) == <<CASE d = 0 -> "0" [] d = 1 -> "1" [] d = 2 -> "2" [] d = 3 -> "3"
                [] d = 4 -> "4" [] d = 5 -> "5" [] d = 6 -> "6" [] d = 7 -> "7"
                [] d = 8 -> "8" [] OTHER -> "9">>

RECURSIVE IntToStr(_)
IntToStr(n) == IF n < 10 THEN <<Digit(n)>> ELSE IntToStr(n \div 10) \o <<Digit(n % 10)>>

\* s.startswith(p)
StartsWith(s, p) == Len(s) >= Len(p) /\ SubSeq(s, 1, Len(p)) = p

\* s[n:] where n counts characters
RECURSIVE DropChars(_, _)
DropChars(s, n) ==
    IF n <= 0 \/ s = <<>> THEN s ELSE DropChars(Tail(s), n - AtomLen(Head(s)))

\* s.find(c): the 1-based position of the first c, 0 when there is none
RECURSIVE Find(_, _)
Find(s, c) ==
    IF s = <<>> THEN 0
    ELSE IF Head(s) = c THEN 1
    ELSE LET r == Find(Tail(s), c) IN IF r = 0 THEN 0 ELSE r + 1

\* s.split(c): always at least one part
RECURSIVE Split(_, _)
Split(s, c) ==
    LET p == Find(s, c) IN
    IF p = 0 THEN <<s>>
    ELSE <<SubSeq(s, 1, p - 1)>> \o Split(SubSeq(s, p + 1, Len(s)), c)

\* c.join(parts)
RECURSIVE Join(_, _)
Join(parts, c) ==
    IF parts = <<>> THEN <<>>
    ELSE IF Len(parts) = 1 THEN parts[1]
    ELSE parts[1] \o <<c>> \o Join(Tail(parts), c)

RECURSIVE LStrip(_)
LStrip(s) == IF s # <<>> /\ IsSpace(Head(s)) THEN LStrip(Tail(s)) ELSE s

RECURSIVE RStrip(_)
RStrip(s) ==
    IF s # <<>> /\ IsSpace(s[Len(s)]) THEN RStrip(SubSeq(s, 1, Len(s) - 1)) ELSE s

\* s.strip()
Strip(s) == RStrip(LStrip(s))

\* s.split() with no argument: the words between runs of whitespace
RECURSIVE Words(_)
Words(s) ==
    LET t == LStrip(s) IN
    IF t = <<>> THEN <<>>
    ELSE LET RECURSIVE WordEnd(_)
             WordEnd(i) == IF i > Len(t) \/ IsSpace(t[i]) THEN i - 1 ELSE WordEnd(i + 1)
             e == WordEnd(1)
         IN <<SubSeq(t, 1, e)>> \o Words(SubSeq(t, e + 1, Len(t)))

(***************************************************************************)
(* Ordering of names: Python compares str values by code point.            *)
(***************************************************************************)
CodePoint(a) ==
    CASE a = TAB -> 9 [] a = LF -> 10 [] a = SP -> 32
      [] a \in {<<".pygit">>, <<".git">>} -> 46
      [] a = <<"a">> -> 97 [] a = <<"b">> -> 98 [] a = <<"c">> -> 99
      [] a = EACUTE -> 233
      [] OTHER -> 48

RECURSIVE StrLess(_, _)
StrLess(s, t) ==
    IF t = <<>> THEN FALSE
    ELSE IF s = <<>> THEN TRUE
    ELSE IF Head(s) = Head(t) THEN StrLess(Tail(s), Tail(t))
    ELSE CodePoint(Head(s)) < CodePoint(Head(t))

(***************************************************************************)
(* HashCalculator (core/hash.py).                                          *)
(***************************************************************************)
\* The 40 hex characters of the digest of the bytes data.
sha1(data) == << <<"sha1", data>> >>

\* header = f"{obj_type} {len(content)}\0"; content is already bytes here
\* (a str argument is encoded by the caller, as hash_object does first).
hash_object(obj_type, content) ==
    LET header == <<<<obj_type>>, SP>> \o IntToStr(StrLen(content)) \o <<NUL>>
        full_content == encode(header) \o content
    IN sha1(full_content)

(***************************************************************************)
(* Results of operations that may raise.                                   *)
(***************************************************************************)
NoObj == [type |-> "none"]
Ok(o) == [ok |-> TRUE, err |-> "", obj |-> o]
Raise(e) == [ok |-> FALSE, err |-> e, obj |-> NoObj]

(***************************************************************************)
(* Blob (objects/blob.py).                                                 *)
(***************************************************************************)
Blob(content) == [type |-> "blob", content |-> content]

Blob_hash(b) == hash_object("blob", b.content)

Blob_serialize(b) ==
    LET header == <<<<"blob">>, SP>> \o IntToStr(StrLen(b.content)) \o <<NUL>>
    IN encode(header) \o b.content

Blob_deserialize(data) ==
    LET null_pos == Find(data, NUL) IN
    IF null_pos = 0 THEN Raise("ValueError")
    ELSE LET header == decode(SubSeq(data, 1, null_pos - 1))
             parts == Split(header, SP)
         IN IF Len(parts) # 2 \/ parts[1] # <<<<"blob">>>> THEN Raise("ValueError")
            ELSE Ok(Blob(SubSeq(data, null_pos + 1, Len(data))))

(***************************************************************************)
(* Tree (objects/tree.py).  entries is the dict in insertion order; the    *)
(* two caches are Optional.                                                *)
(***************************************************************************)
TreeEntry(mode, obj_type, hash, name) ==
    [mode |-> mode, obj_type |-> obj_type, hash |-> hash, name |-> name]

Tree == [type |-> "tree", entries |-> <<>>, hash_cache |-> None, content_cache |-> None]

\* sorted(entries, key=name): a stable insertion sort
RECURSIVE SortedByName(_)
SortedByName(es) ==
    IF es = <<>> THEN <<>>
    ELSE LET rest == SortedByName(SubSeq(es, 1, Len(es) - 1))
             e == es[Len(es)]
             \* e goes after every entry whose name is not greater than its own
             k == Cardinality({i \in 1..Len(rest) : ~StrLess(e.name, rest[i].name)})
         IN SubSeq(rest, 1, k) \o <<e>> \o SubSeq(rest, k + 1, Len(rest))

EntryLine(entry) ==
    entry.mode \o <<SP>> \o entry.obj_type \o <<SP>> \o entry.hash \o <<TAB>> \o entry.name

\* a Tree whose content keeps the insertion order of its entries
Tree_content_unsorted(entries) ==
    Join([i \in 1..Len(entries) |-> EntryLine(entries[i])], LF)

Tree_content(entries) ==
    LET sorted_entries == SortedByName(entries)
    IN Join([i \in 1..Len(sorted_entries) |-> EntryLine(sorted_entries[i])], LF)

\* _get_content: the cached content when there is one
Tree_get_content(t) ==
    IF IsNone(t.content_cache) THEN Tree_content(t.entries) ELSE Val(t.content_cache)

\* the hash property: the cached hash when there is one
Tree_hash(t) ==
    IF IsNone(t.hash_cache) THEN hash_object("tree", encode(Tree_get_content(t)))
    ELSE Val(t.hash_cache)

\* the Tree object after its hash property was read: both caches are filled
Tree_after_hash(t) ==
    [t EXCEPT !.hash_cache = Some(Tree_hash(t)),
              !.content_cache = IF IsNone(t.hash_cache) THEN Some(Tree_get_content(t)) ELSE @]

\* the Tree object after size or serialize() was read: the content cache is filled
Tree_after_content(t) == [t EXCEPT !.content_cache = Some(Tree_get_content(t))]

Tree_size(t) == StrLen(Tree_get_content(t))

\* self.entries[entry.name] = entry: an existing key keeps its place
DictSet(es, entry) ==
    IF \E i \in 1..Len(es) : es[i].name = entry.name
    THEN [i \in 1..Len(es) |-> IF es[i].name = entry.name THEN entry ELSE es[i]]
    ELSE Append(es, entry)

RECURSIVE DictDel(_, _)
DictDel(es, name) ==
    IF es = <<>> THEN <<>>
    ELSE IF Head(es).name = name THEN Tail(es)
    ELSE <<Head(es)>> \o DictDel(Tail(es), name)

\* an add_entry that resets the cached content and forgets the cached hash
Tree_add_entry_keeps_hash(t, entry) ==
    [t EXCEPT !.entries = DictSet(t.entries, entry), !.content_cache = None]

Tree_add_entry(t, entry) ==
    [t EXCEPT !.entries = DictSet(t.entries, entry),
              !.hash_cache = None, !.content_cache = None]

Tree_add_blob(t, blob, name) ==
    Tree_add_entry(t, TreeEntry(<<<<"100644">>>>, <<<<"blob">>>>, Blob_hash(blob), name))

Tree_add_tree(t, sub, name) ==
    Tree_add_entry(t, TreeEntry(<<<<"040000">>>>, <<<<"tree">>>>, Tree_hash(sub), name))

Tree_remove_entry(t, name) ==
    IF \E i \in 1..Len(t.entries) : t.entries[i].name = name
    THEN [t EXCEPT !.entries = DictDel(t.entries, name),
                   !.hash_cache = None, !.content_cache = None]
    ELSE t

Tree_serialize(t) ==
    LET content == Tree_get_content(t)
        header == <<<<"tree">>, SP>> \o IntToStr(StrLen(content)) \o <<NUL>>
    IN encode(header) \o encode(content)

\* the loop over the lines of the content: malformed lines are skipped
RECURSIVE Tree_parse_lines(_, _)
Tree_parse_lines(t, lines) ==
    IF lines = <<>> THEN t
    ELSE LET line == Head(lines)
             parts == Split(line, TAB)
             obj_parts == Split(parts[1], SP)
         IN IF Strip(line) = <<>> \/ Len(parts) # 2 \/ Len(obj_parts) # 3
            THEN Tree_parse_lines(t, Tail(lines))
            ELSE Tree_parse_lines(
                    Tree_add_entry(t, TreeEntry(obj_parts[1], obj_parts[2], obj_parts[3], parts[2])),
                    Tail(lines))

Tree_deserialize(data) ==
    LET null_pos == Find(data, NUL) IN
    IF null_pos = 0 THEN Raise("ValueError")
    ELSE LET header == decode(SubSeq(data, 1, null_pos - 1))
             parts == Split(header, SP)
             content == decode(SubSeq(data, null_pos + 1, Len(data)))
         IN IF Len(parts) # 2 \/ parts[1] # <<<<"tree">>>> THEN Raise("ValueError")
            ELSE IF content = <<>> THEN Ok(Tree)
            ELSE Ok(Tree_parse_lines(Tree, Split(content, LF)))

(***************************************************************************)
(* Timestamps.  A datetime is a number of seconds; strftime writes         *)
(* "%Y-%m-%d %H:%M:%S", strptime reads it back or raises ValueError.       *)
(***************************************************************************)
strftime(t) == <<<<"2024-01-01">>, SP, <<"00:00:">>, Digit(t \div 10), Digit(t % 10)>>

Seconds == 0..59

\* Some(t) when s is a well-formed timestamp, None when strptime raises
strptime(s) ==
    IF \E t \in Seconds : strftime(t) = s
    THEN Some(CHOOSE t \in Seconds : strftime(t) = s)
    ELSE None

\* bool(s) of a str
Truthy(s) == s # <<>>

\* bool(o) of an Optional[str]
TruthyOpt(o) == ~IsNone(o) /\ Truthy(Val(o))

\* The header block common to Commit.deserialize and Tag.deserialize:
\* the index of the first line that is blank after strip(), Len + 1 if none.
RECURSIVE HeaderEnd(_, _)
HeaderEnd(lines, i) ==
    IF i <= Len(lines) /\ Strip(lines[i]) # <<>> THEN HeaderEnd(lines, i + 1) ELSE i

RECURSIVE SkipBlank(_, _)
SkipBlank(lines, i) ==
    IF i <= Len(lines) /\ Strip(lines[i]) = <<>> THEN SkipBlank(lines, i + 1) ELSE i

\* The value the header loop leaves in a field: that of the last header line
\* that starts with the keyword and a space; dflt when no line does.
HeaderField(lines, hend, keyword, dflt) ==
    LET prefix == <<<<keyword>>, SP>>
        hits == {i \in 1..(hend - 1) : StartsWith(Strip(lines[i]), prefix)}
    IN IF hits = {} THEN dflt
       ELSE LET i == CHOOSE j \in hits : \A k \in hits : k <= j
            IN DropChars(Strip(lines[i]), StrLen(prefix))

\* '\n'.join(lines[i:]).strip()
MessageFrom(lines, i) == Strip(Join(SubSeq(lines, i, Len(lines)), LF))

\* The timestamp both deserializers derive from the committer / tagger
\* string: its last two words, parsed; datetime.now() whenever that fails.
ParsedTimestamp(who, now) ==
    LET parts == Words(who) IN
    IF Truthy(who) /\ Len(parts) >= 2
    THEN LET ts == strptime(Join(SubSeq(parts, Len(parts) - 1, Len(parts)), SP))
         IN IF IsNone(ts) THEN now ELSE Val(ts)
    ELSE now

(***************************************************************************)
(* Commit (objects/commit.py).                                             *)
(***************************************************************************)
Commit(tree_hash, parent_hash, author, committer, message, timestamp) ==
    [type |-> "commit", tree_hash |-> tree_hash, parent_hash |-> parent_hash,
     author |-> author, committer |-> committer, message |-> message,
     timestamp |-> timestamp]

Commit_get_content(c) ==
    LET timestamp_str == strftime(c.timestamp)
        lines ==
            <<<<<<"tree">>, SP>> \o c.tree_hash>>
            \o (IF TruthyOpt(c.parent_hash)
                THEN <<<<<<"parent">>, SP>> \o Val(c.parent_hash)>> ELSE <<>>)
            \o (IF Truthy(c.author)
                THEN <<<<<<"author">>, SP>> \o c.author \o <<SP>> \o timestamp_str>> ELSE <<>>)
            \o (IF Truthy(c.committer)
                THEN <<<<<<"committer">>, SP>> \o c.committer \o <<SP>> \o timestamp_str>>
                ELSE <<>>)
            \o << <<>> >>
            \o <<c.message>>
    IN Join(lines, LF)

Commit_hash(c) == hash_object("commit", encode(Commit_get_content(c)))

Commit_serialize(c) ==
    LET content == Commit_get_content(c)
        header == <<<<"commit">>, SP>> \o IntToStr(StrLen(content)) \o <<NUL>>
    IN encode(header) \o encode(content)

Commit_deserialize(data, now) ==
    LET null_pos == Find(data, NUL) IN
    IF null_pos = 0 THEN Raise("ValueError")
    ELSE LET header == decode(SubSeq(data, 1, null_pos - 1))
             parts == Split(header, SP)
             content == decode(SubSeq(data, null_pos + 1, Len(data)))
             lines == Split(content, LF)
             hend == HeaderEnd(lines, 1)
             tree_hash == HeaderField(lines, hend, "tree", <<>>)
             parent == HeaderField(lines, hend, "parent", <<>>)
             parent_hash ==
                 IF \E i \in 1..(hend - 1) : StartsWith(Strip(lines[i]), <<<<"parent">>, SP>>)
                 THEN Some(parent) ELSE None
             author == HeaderField(lines, hend, "author", <<>>)
             committer == HeaderField(lines, hend, "committer", <<>>)
             message == MessageFrom(lines, SkipBlank(lines, hend))
         IN IF Len(parts) # 2 \/ parts[1] # <<<<"commit">>>> THEN Raise("ValueError")
            ELSE Ok(Commit(tree_hash, parent_hash, author, committer, message,
                           ParsedTimestamp(committer, now)))

(***************************************************************************)
(* Tag (objects/tag.py).                                                   *)
(***************************************************************************)
Tag(tag_name, target_hash, target_type, tagger, message, timestamp) ==
    [type |-> "tag", tag_name |-> tag_name, target_hash |-> target_hash,
     target_type |-> target_type, tagger |-> tagger, message |-> message,
     timestamp |-> timestamp]

Tag_get_content(t) ==
    LET timestamp_str == strftime(t.timestamp)
        lines ==
            <<<<<<"object">>, SP>> \o t.target_hash,
              <<<<"type">>, SP>> \o t.target_type,
              <<<<"tag">>, SP>> \o t.tag_name>>
            \o (IF Truthy(t.tagger)
                THEN <<<<<<"tagger">>, SP>> \o t.tagger \o <<SP>> \o timestamp_str>> ELSE <<>>)
            \o << <<>> >>
            \o <<t.message>>
    IN Join(lines, LF)

Tag_hash(t) == hash_object("tag", encode(Tag_get_content(t)))

Tag_serialize(t) ==
    LET content == Tag_get_content(t)
        header == <<<<"tag">>, SP>> \o IntToStr(StrLen(content)) \o <<NUL>>
    IN encode(header) \o encode(content)

Tag_deserialize(data, now) ==
    LET null_pos == Find(data, NUL) IN
    IF null_pos = 0 THEN Raise("ValueError")
    ELSE LET header == decode(SubSeq(data, 1, null_pos - 1))
             parts == Split(header, SP)
             content == decode(SubSeq(data, null_pos + 1, Len(data)))
             lines == Split(content, LF)
             hend == HeaderEnd(lines, 1)
             target_hash == HeaderField(lines, hend, "object", <<>>)
             target_type == HeaderField(lines, hend, "type", <<>>)
             tag_name == HeaderField(lines, hend, "tag", <<>>)
             tagger == HeaderField(lines, hend, "tagger", <<>>)
             message == MessageFrom(lines, SkipBlank(lines, hend))
         IN IF Len(parts) # 2 \/ parts[1] # <<<<"tag">>>> THEN Raise("ValueError")
            ELSE Ok(Tag(tag_name, target_hash, target_type, tagger, message,
                        ParsedTimestamp(tagger, now)))

(***************************************************************************)
(* The properties every object kind has.                                   *)
(***************************************************************************)
obj_hash(o) ==
    CASE o.type = "blob" -> Blob_hash(o)
      [] o.type = "tree" -> Tree_hash(o)
      [] o.type = "commit" -> Commit_hash(o)
      [] o.type = "tag" -> Tag_hash(o)

obj_serialize(o) ==
    CASE o.type = "blob" -> Blob_serialize(o)
      [] o.type = "tree" -> Tree_serialize(o)
      [] o.type = "commit" -> Commit_serialize(o)
      [] o.type = "tag" -> Tag_serialize(o)

\* the canonical content an object is hashed over
obj_content(o) ==
    CASE o.type = "blob" -> o.content
      [] o.type = "tree" -> encode(Tree_get_content(o))
      [] o.type = "commit" -> encode(Commit_get_content(o))
      [] o.type = "tag" -> encode(Tag_get_content(o))

obj_deserialize(obj_type, data, now) ==
    CASE obj_type = <<<<"blob">>>> -> Blob_deserialize(data)
      [] obj_type = <<<<"tree">>>> -> Tree_deserialize(data)
      [] obj_type = <<<<"commit">>>> -> Commit_deserialize(data, now)
      [] obj_type = <<<<"tag">>>> -> Tag_deserialize(data, now)

TypeName(o) == <<<<o.type>>>>

(***************************************************************************)
(* ObjectDatabase (core/repository.py).  files maps a storage key to the   *)
(* bytes of the file objects/<key[:2]>/<key[2:]>; a file is either a zlib  *)
(* stream of some data or bytes that zlib.decompress rejects.              *)
(***************************************************************************)
object_classes == {<<<<"blob">>>>, <<<<"tree">>>>, <<<<"commit">>>>, <<<<"tag">>>>}

compress_object(data) == [zlib |-> TRUE, data |-> data]

decompress_object(file) == IF file.zlib THEN Ok(file.data) ELSE Raise("zlib.error")

object_exists(files, hash_value) == hash_value \in DOMAIN files

\* a store that writes the file whether or not it is already there
store_object_always_writes(files, obj) ==
    LET hash_value == obj_hash(obj) IN
    [k \in DOMAIN files \cup {hash_value} |->
        IF k = hash_value THEN compress_object(obj_serialize(obj)) ELSE files[k]]

\* the files after store_object(obj); the call returns obj.hash
store_object(files, obj) ==
    LET hash_value == obj_hash(obj) IN
    IF object_exists(files, hash_value) THEN files
    ELSE files @@ (hash_value :> compress_object(obj_serialize(obj)))

\* delete_object(hash_value): the files it leaves and what it returns
delete_object(files, hash_value) ==
    IF object_exists(files, hash_value)
    THEN [files |-> [k \in DOMAIN files \ {hash_value} |-> files[k]], value |-> TRUE]
    ELSE [files |-> files, value |-> FALSE]

get_object(files, hash_value, now) ==
    IF ~object_exists(files, hash_value) THEN Raise("FileNotFoundError")
    ELSE LET serialized == decompress_object(files[hash_value]) IN
         IF ~serialized.ok THEN serialized
         ELSE LET serialized_data == serialized.obj
                  null_pos == Find(serialized_data, NUL)
                  header == decode(SubSeq(serialized_data, 1, null_pos - 1))
                  parts == Split(header, SP)
              IN IF null_pos = 0 THEN Raise("ValueError")
                 ELSE IF Len(parts) # 2 THEN Raise("ValueError")
                 ELSE IF parts[1] \notin object_classes THEN Raise("ValueError")
                 ELSE obj_deserialize(parts[1], serialized_data, now)

\* list_objects(): every file under objects/ (the sorted order of the hex
\* keys is not modelled: the listing is the set of keys)
list_objects(files) == DOMAIN files

\* list_objects(obj_type): a file that cannot be read is left out
list_objects_of(files, obj_type, now) ==
    {h \in DOMAIN files :
        LET r == get_object(files, h, now) IN r.ok /\ TypeName(r.obj) = obj_type}

\* one pass of the loop of verify_integrity over the listed keys.  The code
\* walks the keys in the sorted order of their hex digits and appends to
\* corrupted_list in that order; the order of digests is not modelled, so
\* corrupted_list is the set of the keys appended.
RECURSIVE verify_loop(_, _, _, _)
verify_loop(files, todo, results, now) ==
    IF todo = {} THEN results
    ELSE LET hash_value == CHOOSE h \in todo : TRUE
             r == get_object(files, hash_value, now)
             counted == [results EXCEPT !.total_objects = @ + 1]
             next ==
                 IF r.ok /\ obj_hash(r.obj) = hash_value
                 THEN [counted EXCEPT !.valid_objects = @ + 1]
                 ELSE [counted EXCEPT !.corrupted_objects = @ + 1,
                                      !.corrupted_list = @ \cup {hash_value}]
         IN verify_loop(files, todo \ {hash_value}, next, now)

verify_integrity(files, now) ==
    verify_loop(files, list_objects(files),
                [total_objects |-> 0, valid_objects |-> 0,
                 corrupted_objects |-> 0, corrupted_list |-> {}], now)

(***************************************************************************)
(* Bounds and the inputs drawn from them.                                  *)
(***************************************************************************)
MaxClock == 2
MaxObjects == 3
MaxCommits == 2
MaxCount == 2
MaxMtime == 2
MaxTampered == 1
MaxEntries == 2
MaxBlobLen == 2

\* datetime.now(), in seconds
Timestamps == 1..MaxClock

Range(f) == {f[i] : i \in DOMAIN f}

Str(c) == <<<<c>>>>

\* byte strings of at most n bytes over the alphabet A
RECURSIVE BytesUpTo(_, _)
BytesUpTo(A, n) ==
    IF n = 0 THEN {<<>>}
    ELSE LET shorter == BytesUpTo(A, n - 1)
         IN shorter \cup {Append(b, a) : b \in shorter, a \in A}

BlobContents == BytesUpTo({<<"1">>, <<"2">>, NUL}, MaxBlobLen)

\* entry names: plain, non-ASCII, and one holding a tab
Names == {Str("a"), Str("b"), <<EACUTE>>, <<<<"a">>, TAB, <<"b">>>>}

EmptyFn == [x \in {} |-> x]
Idle == [op |-> "idle"]

\* no .pygit directory, and the state of a program that opened no repository;
\* mtime is the st_mtime of the files of the directory, followed where the
\* program reads it: for the files the staging area stats
NoMeta ==
    [exists |-> FALSE, HEAD |-> None, refs |-> EmptyFn, config |-> None, index |-> None,
     mtime |-> EmptyFn]
\* no persistent terminal was ever opened
NoTerminals == terminals = EmptyFn /\ uuids = {} /\ pending = EmptyFn

NoRepository ==
    /\ wt = EmptyFn /\ meta = NoMeta /\ handle = EmptyFn
    /\ history = <<>> /\ clean = FALSE /\ index = EmptyFn
    /\ NoTerminals

\* the entries add_blob / add_tree can make from the small objects
EntryChoices ==
    {TreeEntry(Str("100644"), Str("blob"), Blob_hash(Blob(c)), n) :
        c \in {Str("1"), Str("2")}, n \in Names}
    \cup {TreeEntry(Str("040000"), Str("tree"), Tree_hash(Tree), n) : n \in Names}

\* the Tree objects reached by at most n add_entry calls on a new Tree
RECURSIVE TreesUpTo(_)
TreesUpTo(n) ==
    IF n = 0 THEN {Tree}
    ELSE LET smaller == TreesUpTo(n - 1)
         IN smaller \cup {Tree_add_entry(t, e) : t \in smaller, e \in EntryChoices}

Identities == {<<>>, Str("a")}
Messages == {Str("m"), <<<<"m">>, LF, <<"m">>>>}

CommitUniverse ==
    LET root == Commit(Tree_hash(Tree), None, Str("a"), Str("a"), Str("m"), 1)
    IN {Commit(Tree_hash(Tree), p, a, c, m, t) :
            p \in {None, Some(Commit_hash(root))}, a \in Identities,
            c \in Identities, m \in Messages, t \in Timestamps}

TagUniverse ==
    {Tag(Str("a"), Tree_hash(Tree), Str("commit"), g, m, t) :
        g \in Identities, m \in Messages, t \in Timestamps}

ObjUniverse ==
    {Blob(c) : c \in BlobContents} \cup TreesUpTo(MaxEntries)
    \cup CommitUniverse \cup TagUniverse

(***************************************************************************)
(* The file system below the repository root.  A directory is a function   *)
(* from names to nodes; a node is a regular file with its bytes or a       *)
(* directory with its children.                                            *)
(***************************************************************************)
FileNode(content) == [kind |-> "file", content |-> content]
DirNode(children) == [kind |-> "dir", children |-> children]

\* Blob.from_file
Blob_from_file(node) == Blob(node.content)

\* p in name, for str values
Contains(name, pat) ==
    \E i \in 1..(Len(name) + 1 - Len(pat)) : SubSeq(name, i, i + Len(pat) - 1) = pat

default_ignore_patterns == {Str(".git"), Str(".pygit"), Str("__pycache__"), Str(".DS_Store")}

IsIgnored(name, ignore_patterns) == \E pat \in ignore_patterns : Contains(name, pat)

(***************************************************************************)
(* MerkleTree (core/merkle.py).  iterdir() lists a directory in an order   *)
(* the file system chooses, so a build has a set of possible results: one  *)
(* Tree object per listing order of every directory walked.                *)
(***************************************************************************)
RECURSIVE build_tree_recursive(_, _, _)
RECURSIVE build_tree_in_order(_, _, _, _)

\* the loop body of _build_tree_recursive over the listing q of children
build_tree_in_order(children, q, parent_tree, ignore_patterns) ==
    IF q = <<>> THEN {parent_tree}
    ELSE LET name == Head(q)
             item == children[name]
         IN IF IsIgnored(name, ignore_patterns)
            THEN build_tree_in_order(children, Tail(q), parent_tree, ignore_patterns)
            ELSE IF item.kind = "file"
            THEN build_tree_in_order(children, Tail(q),
                     Tree_add_blob(parent_tree, Blob_from_file(item), name), ignore_patterns)
            ELSE UNION {build_tree_in_order(children, Tail(q),
                            Tree_add_tree(parent_tree, subtree, name), ignore_patterns) :
                        subtree \in build_tree_recursive(item.children, Tree, ignore_patterns)}

build_tree_recursive(children, parent_tree, ignore_patterns) ==
    UNION {build_tree_in_order(children, q, parent_tree, ignore_patterns) :
           q \in {r \in [1..Cardinality(DOMAIN children) -> DOMAIN children] :
                     Range(r) = DOMAIN children}}

build_tree_from_directory(directory) ==
    build_tree_recursive(directory, Tree, default_ignore_patterns)

\* the directories the model draws working trees from: files a and b at the
\* root, b possibly a directory holding a file a
FileContents == {Str("1"), Str("2")}

SubDirs == {EmptyFn} \cup {Str("a") :> FileNode(c) : c \in FileContents}

NodesA == {FileNode(c) : c \in FileContents}
NodesB == {FileNode(Str("1"))} \cup {DirNode(d) : d \in SubDirs}

WorkTrees ==
    {EmptyFn}
    \cup {Str("a") :> na : na \in NodesA}
    \cup {Str("b") :> nb : nb \in NodesB}
    \cup {(Str("a") :> na) @@ (Str("b") :> nb) : na \in NodesA, nb \in NodesB}

\* the metadata directory as the walk would see it
MetaDir == DirNode(Str("HEAD") :> FileNode(Str("ref: refs/heads/main")))

\* the listing of the repository root once .pygit exists
WithMeta(worktree) == worktree @@ (Str(".pygit") :> MetaDir)

(***************************************************************************)
(* SpecObj: serialize() followed by deserialize() on one object.           *)
(***************************************************************************)
InitObj ==
    /\ NoRepository
    /\ objfiles = EmptyFn /\ stored = {} /\ tampered = EmptyFn
    /\ tree = Tree
    /\ last \in {[op |-> "new", obj |-> o, back |-> Raise("none")] : o \in ObjUniverse}

RoundTrip ==
    /\ last.op = "new"
    /\ \E now \in Timestamps :
         last' = [op |-> "roundtrip", obj |-> last.obj,
                  back |-> obj_deserialize(TypeName(last.obj), obj_serialize(last.obj), now)]
    /\ UNCHANGED <<objfiles, stored, tampered, tree, wt, meta, handle, history, clean, index,
                   terminals, uuids, pending>>

NewObject ==
    /\ last.op = "roundtrip"
    /\ \E o \in ObjUniverse : last' = [op |-> "new", obj |-> o, back |-> Raise("none")]
    /\ UNCHANGED <<objfiles, stored, tampered, tree, wt, meta, handle, history, clean, index,
                   terminals, uuids, pending>>

NextObj == RoundTrip \/ NewObject

SpecObj == InitObj /\ [][NextObj]_vars

\* the object read back has the canonical content and the hash of the original
RoundTripExact(o, back) ==
    /\ back.ok
    /\ obj_content(back.obj) = obj_content(o)
    /\ obj_hash(back.obj) = obj_hash(o)

HasIdentity(o) ==
    IF o.type = "commit" THEN Truthy(o.author) /\ Truthy(o.committer) ELSE Truthy(o.tagger)

EntrySet(t) == Range(t.entries)

\* C3: round-trip law for metadata objects: for every Commit (with or without
\* parent, author and committer non-empty) and every Tag (tagger non-empty),
\* deserialize(serialize(x)) has exactly the canonical content and hash of x.
C3_MetadataRoundTrip ==
    (last.op = "roundtrip" /\ last.obj.type \in {"commit", "tag"} /\ HasIdentity(last.obj))
        => RoundTripExact(last.obj, last.back)

\* C4: round-trip law for content objects: for every Blob (any bytes, the empty
\* one included) and every Tree (any entries, the empty tree included),
\* deserialize(serialize(x)) has the same canonical content, entry set and hash.
C4_ContentRoundTrip ==
    (last.op = "roundtrip" /\ last.obj.type \in {"blob", "tree"})
        => /\ RoundTripExact(last.obj, last.back)
           /\ last.obj.type = "tree" => EntrySet(last.back.obj) = EntrySet(last.obj)

(***************************************************************************)
(* SpecTree: one Tree object, mutated and read in any interleaving.        *)
(***************************************************************************)
TreeNames == {Str("a"), Str("b"), <<EACUTE>>}

InitTree ==
    /\ NoRepository
    /\ objfiles = EmptyFn /\ stored = {} /\ tampered = EmptyFn
    /\ tree = Tree
    /\ last = Idle

HasName(t, name) == \E i \in 1..Len(t.entries) : t.entries[i].name = name

\* room for the name within the bound on the number of entries
Room(name) == HasName(tree, name) \/ Len(tree.entries) < MaxEntries

AddBlob ==
    \E name \in TreeNames, c \in {Str("1"), Str("2")} :
        /\ Room(name)
        /\ tree' = Tree_add_blob(tree, Blob(c), name)
        /\ last' = [op |-> "add_blob", had_hash |-> ~IsNone(tree.hash_cache)]
        /\ UNCHANGED <<objfiles, stored, tampered, wt, meta, handle, history, clean, index,
                       terminals, uuids, pending>>

AddTree ==
    \E name \in TreeNames :
        /\ Room(name)
        /\ tree' = Tree_add_tree(tree, Tree, name)
        /\ last' = [op |-> "add_tree", had_hash |-> ~IsNone(tree.hash_cache)]
        /\ UNCHANGED <<objfiles, stored, tampered, wt, meta, handle, history, clean, index,
                       terminals, uuids, pending>>

AddEntry ==
    \E name \in TreeNames :
        /\ Room(name)
        /\ tree' = Tree_add_entry(tree,
                     TreeEntry(Str("100755"), Str("blob"), Blob_hash(Blob(Str("1"))), name))
        /\ last' = [op |-> "add_entry", had_hash |-> ~IsNone(tree.hash_cache)]
        /\ UNCHANGED <<objfiles, stored, tampered, wt, meta, handle, history, clean, index,
                       terminals, uuids, pending>>

RemoveEntry ==
    \E name \in TreeNames :
        /\ tree' = Tree_remove_entry(tree, name)
        /\ last' = [op |-> "remove_entry", value |-> HasName(tree, name),
                    had_hash |-> ~IsNone(tree.hash_cache) /\ HasName(tree, name)]
        /\ UNCHANGED <<objfiles, stored, tampered, wt, meta, handle, history, clean, index,
                       terminals, uuids, pending>>

Mutators == {"add_blob", "add_tree", "add_entry", "remove_entry"}

ReadHash ==
    /\ last' = [op |-> "hash", value |-> Tree_hash(tree),
                 after_change |-> last.op \in Mutators /\ last.had_hash]
    /\ tree' = Tree_after_hash(tree)
    /\ UNCHANGED <<objfiles, stored, tampered, wt, meta, handle, history, clean, index,
                   terminals, uuids, pending>>

ReadSize ==
    /\ last' = [op |-> "size", value |-> Tree_size(tree)]
    /\ tree' = Tree_after_content(tree)
    /\ UNCHANGED <<objfiles, stored, tampered, wt, meta, handle, history, clean, index,
                   terminals, uuids, pending>>

ReadSerialize ==
    /\ last' = [op |-> "serialize", value |-> Tree_serialize(tree)]
    /\ tree' = Tree_after_content(tree)
    /\ UNCHANGED <<objfiles, stored, tampered, wt, meta, handle, history, clean, index,
                   terminals, uuids, pending>>

BuildFromDirectory ==
    \E d \in WorkTrees :
        \E t \in build_tree_from_directory(WithMeta(d)) :
            /\ tree' = t
            /\ last' = [op |-> "build", dir |-> d, had_hash |-> FALSE]
            /\ UNCHANGED <<objfiles, stored, tampered, wt, meta, handle, history, clean, index,
                           terminals, uuids, pending>>

NextTree ==
    \/ AddBlob \/ AddTree \/ AddEntry \/ RemoveEntry
    \/ ReadHash \/ ReadSize \/ ReadSerialize
    \/ BuildFromDirectory

SpecTree == InitTree /\ [][NextTree]_vars

\* what a read must return: the value of a Tree built now from these entries
FreshTree(entries) == [Tree EXCEPT !.entries = entries]

\* every order in which the entries of the set es can sit in the dict
Orders(es) == {q \in [1..Cardinality(es) -> es] : Range(q) = es}

\* C8: order-independence: two Trees that end with the same set of entries have
\* the same hash and the same serialized bytes, whatever the order (adds,
\* removes and re-adds) in which the entries got there; a tree built from a
\* directory has the same root hash for every listing order of the walk.
C8_OrderIndependence ==
    /\ \A q \in Orders(EntrySet(tree)) :
          /\ Tree_hash(FreshTree(q)) = Tree_hash(tree)
          /\ Tree_serialize(FreshTree(q)) = Tree_serialize(tree)
    /\ last.op = "build" =>
          \A t \in build_tree_from_directory(WithMeta(last.dir)) :
              Tree_hash(t) = Tree_hash(tree)

\* C8 witness: the hash of a tree was read whose two entries were added in
\* descending name order
C8_Witness ==
    /\ last.op = "hash"
    /\ Len(tree.entries) = 2
    /\ StrLess(tree.entries[2].name, tree.entries[1].name)

\* C9: no stale value is observed: every read of hash, size and serialize()
\* returns the value computed from the entries as they are at the read.
C9_NoStaleRead ==
    /\ last.op = "hash" => last.value = Tree_hash(FreshTree(tree.entries))
    /\ last.op = "size" => last.value = Tree_size(FreshTree(tree.entries))
    /\ last.op = "serialize" => last.value = Tree_serialize(FreshTree(tree.entries))
    /\ ~IsNone(tree.hash_cache) => Val(tree.hash_cache) = Tree_hash(FreshTree(tree.entries))
    /\ ~IsNone(tree.content_cache)
          => Val(tree.content_cache) = Tree_get_content(FreshTree(tree.entries))

\* C9 witness: the hash is read right after an entry change that found the
\* hash cache filled
C9_Witness ==
    /\ last.op = "hash"
    /\ last.after_change
    /\ Len(tree.entries) = 2

(***************************************************************************)
(* Damage done to an object file from outside the program.                 *)
(***************************************************************************)
TamperKinds == {"garbage", "no_nul", "bad_header", "unknown_kind",
                "payload_byte", "payload_lf", "length"}

tamper(file, how) ==
    LET data == file.data
        null_pos == Find(data, NUL)
        header == SubSeq(data, 1, null_pos - 1)
        payload == SubSeq(data, null_pos + 1, Len(data))
    IN CASE how = "garbage" -> [zlib |-> FALSE, data |-> <<>>]
         [] how = "no_nul" -> [file EXCEPT !.data = header]
         [] how = "bad_header" ->
                [file EXCEPT !.data = header \o <<SP, <<"1">>, NUL>> \o payload]
         [] how = "unknown_kind" ->
                [file EXCEPT !.data = <<<<"blub">>>> \o Tail(header) \o <<NUL>> \o payload]
         [] how = "payload_byte" -> [file EXCEPT !.data = data \o <<<<"1">>>>]
         [] how = "payload_lf" -> [file EXCEPT !.data = data \o <<LF>>]
         [] how = "length" ->
                [file EXCEPT !.data = <<Head(header), SP>> \o IntToStr(StrLen(payload) + 1)
                                      \o <<NUL>> \o payload]

(***************************************************************************)
(* SpecODB: the object database alone.                                     *)
(***************************************************************************)
OdbUniverse ==
    {Blob(Str("1")), Blob(Str("2")), Tree, Tree_add_blob(Tree, Blob(Str("1")), Str("a")),
     Commit(Tree_hash(Tree), None, Str("a"), Str("a"), Str("m"), 1),
     Commit(Tree_hash(Tree), None, <<>>, <<>>, Str("m"), 1),
     Tag(Str("a"), Tree_hash(Tree), Str("commit"), Str("a"), Str("m"), 1)}

InitODB ==
    /\ NoRepository
    /\ objfiles = EmptyFn /\ stored = {} /\ tampered = EmptyFn
    /\ tree = Tree
    /\ last = Idle

StoreObject ==
    \E o \in OdbUniverse :
        /\ Cardinality(DOMAIN objfiles \cup {obj_hash(o)}) <= MaxObjects
        /\ objfiles' = store_object(objfiles, o)
        /\ stored' = stored \cup {obj_hash(o)}
        /\ last' = [op |-> "store", value |-> obj_hash(o),
                    existed |-> object_exists(objfiles, obj_hash(o))]
        /\ UNCHANGED <<tampered, tree, wt, meta, handle, history, clean, index,
                       terminals, uuids, pending>>

AbsentKey == sha1(Str("absent"))

GetObject ==
    \E h \in DOMAIN objfiles \cup {AbsentKey}, now \in Timestamps :
        /\ last' = [op |-> "get", key |-> h, value |-> get_object(objfiles, h, now)]
        /\ UNCHANGED <<objfiles, stored, tampered, tree, wt, meta, handle, history, clean, index,
                       terminals, uuids, pending>>

TamperObject ==
    \E h \in DOMAIN objfiles, how \in TamperKinds :
        /\ h \notin DOMAIN tampered
        /\ Cardinality(DOMAIN tampered) < MaxTampered
        /\ objfiles' = [objfiles EXCEPT ![h] = tamper(@, how)]
        /\ tampered' = tampered @@ (h :> how)
        /\ last' = [op |-> "tamper"]
        /\ UNCHANGED <<stored, tree, wt, meta, handle, history, clean, index, terminals, uuids, pending>>

DeleteObject ==
    \E h \in DOMAIN objfiles \cup {AbsentKey} :
        LET r == delete_object(objfiles, h) IN
        /\ objfiles' = r.files
        /\ stored' = stored \ {h}
        /\ tampered' = [k \in DOMAIN tampered \ {h} |-> tampered[k]]
        /\ last' = [op |-> "delete", key |-> h, value |-> r.value]
        /\ UNCHANGED <<tree, wt, meta, handle, history, clean, index, terminals, uuids, pending>>

VerifyIntegrity ==
    \E now \in Timestamps :
        /\ last' = [op |-> "verify", value |-> verify_integrity(objfiles, now)]
        /\ UNCHANGED <<objfiles, stored, tampered, tree, wt, meta, handle, history, clean, index,
                       terminals, uuids, pending>>

ListObjects ==
    \E now \in Timestamps :
        /\ \/ last' = [op |-> "list", value |-> list_objects(objfiles)]
           \/ \E obj_type \in object_classes :
                last' = [op |-> "list", value |-> list_objects_of(objfiles, obj_type, now)]
        /\ UNCHANGED <<objfiles, stored, tampered, tree, wt, meta, handle, history, clean, index,
                       terminals, uuids, pending>>

NextODB ==
    \/ StoreObject \/ GetObject \/ DeleteObject \/ TamperObject \/ VerifyIntegrity
    \/ ListObjects

SpecODB == InitODB /\ [][NextODB]_vars

\* C7: deduplication: the object files are exactly the distinct hashes stored,
\* and storing an object whose hash already has a file writes nothing: every
\* file is left as it was.
C7_Deduplication ==
    /\ [](DOMAIN objfiles = stored /\ Cardinality(DOMAIN objfiles) = Cardinality(stored))
    /\ [][last'.op = "store" =>
            /\ last'.value \in DOMAIN objfiles'
            /\ last'.value \in DOMAIN objfiles => objfiles' = objfiles]_vars

\* C7 witness: an object was stored again while another object is in the store
C7_Witness ==
    /\ last.op = "store" /\ last.existed
    /\ Cardinality(stored) >= 2
    /\ Cardinality(DOMAIN objfiles) = 2

\* the kinds of damage C10 speaks of
CorruptKinds == {"garbage", "no_nul", "bad_header", "unknown_kind",
                 "payload_byte", "payload_lf"}

\* C10: corrupt-object detection without aborting: verify_integrity counts every
\* object file, lists the key of every corrupted file (undecompressable,
\* malformed header, unknown kind, altered payload) and total = valid + corrupted.
C10_CorruptDetected ==
    last.op = "verify" =>
        /\ last.value.total_objects = Cardinality(DOMAIN objfiles)
        /\ last.value.total_objects
              = last.value.valid_objects + last.value.corrupted_objects
        /\ \A h \in DOMAIN tampered :
              tampered[h] \in CorruptKinds => h \in last.value.corrupted_list

(***************************************************************************)
(* Repository (core/repository_manager.py).  self is the record of one     *)
(* Repository object; m is the .pygit directory; files is .pygit/objects.  *)
(***************************************************************************)
HEAD_REF == <<<<"ref: ">>, <<"refs/heads/main">>>>
MAIN == Str("refs/heads/main")

BadJson == [json |-> FALSE, value |-> EmptyFn]
Json(d) == [json |-> TRUE, value |-> d]

UserConfig(name, email) == "user" :> [name |-> name, email |-> email]
default_config == UserConfig(Str("Unknown User"), Str("unknown@example.com"))

load_config(m) ==
    IF ~IsNone(m.config) /\ Val(m.config).json THEN Val(m.config).value ELSE EmptyFn

load_head(m) ==
    IF IsNone(m.HEAD) THEN None
    ELSE LET content == Strip(Val(m.HEAD)) IN
         IF StartsWith(content, <<<<"ref: ">>>>)
         THEN LET ref_name == DropChars(content, 5) IN
              IF ref_name \in DOMAIN m.refs THEN Some(Strip(m.refs[ref_name])) ELSE None
         ELSE Some(content)

\* Repository(repo_path)
Repository_new(m) ==
    IF m.exists
    THEN [is_valid_repo |-> TRUE, config |-> load_config(m), head |-> load_head(m)]
    ELSE [is_valid_repo |-> FALSE, config |-> EmptyFn, head |-> None]

\* The outcome of a Repository method: what it returned or raised, and the
\* object, the metadata directory and the object files it leaves behind.
Outcome(ok, err, value, self, m, files) ==
    [ok |-> ok, err |-> err, value |-> value, self |-> self, meta |-> m, files |-> files]

Repository_init(self, m, files) ==
    IF self.is_valid_repo THEN Outcome(FALSE, "repository exists", <<>>, self, m, files)
    ELSE Outcome(TRUE, "", <<>>,
                 [is_valid_repo |-> TRUE, config |-> default_config, head |-> None],
                 [exists |-> TRUE, HEAD |-> Some(HEAD_REF), refs |-> m.refs,
                  config |-> Some(Json(default_config)), index |-> m.index,
                  mtime |-> m.mtime],
                 files)

Repository_set_user_config(self, m, files, name, email) ==
    IF ~self.is_valid_repo THEN Outcome(FALSE, "invalid repository", <<>>, self, m, files)
    ELSE IF "user" \notin DOMAIN self.config
    THEN Outcome(FALSE, "KeyError", <<>>, self, m, files)
    ELSE LET config == [self.config EXCEPT !["user"] = [name |-> name, email |-> email]]
         IN Outcome(TRUE, "", <<>>, [self EXCEPT !.config = config],
                    [m EXCEPT !.config = Some(Json(config))], files)

\* _save_head(commit_hash)
save_head(m, commit_hash) ==
    [m EXCEPT !.HEAD = Some(HEAD_REF),
              !.refs = [r \in DOMAIN m.refs \cup {MAIN} |->
                           IF r = MAIN THEN commit_hash ELSE m.refs[r]]]

\* commit(), lines 244-257: the error the checks raise, "" when they pass
commit_checks(self, files, built, message, allow_empty, now) ==
    IF ~self.is_valid_repo THEN "invalid repository"
    ELSE IF Strip(message) = <<>> THEN "empty message"
    ELSE IF ~allow_empty /\ TruthyOpt(self.head)
    THEN LET parent_commit == get_object(files, Val(self.head), now) IN
         IF ~parent_commit.ok THEN parent_commit.err
         ELSE IF parent_commit.obj.type # "commit" THEN "AttributeError"
         ELSE IF parent_commit.obj.tree_hash = Tree_hash(built) THEN "nothing to commit"
         ELSE ""
    ELSE ""

\* commit(), lines 259-279: store the tree, make and store the commit, move HEAD
commit_writes(self, m, files, built, message, now) ==
    LET with_tree == store_object(files, built) IN
    IF "user" \notin DOMAIN self.config
    THEN Outcome(FALSE, "KeyError", <<>>, self, m, with_tree)
    ELSE LET user == self.config["user"]
             author == user.name \o <<SP, <<"<">>>> \o user.email \o <<<<">">>>>
             commit == Commit(Tree_hash(built), self.head, author, author, message, now)
             commit_hash == Commit_hash(commit)
         IN Outcome(TRUE, "", commit_hash, [self EXCEPT !.head = Some(commit_hash)],
                    save_head(m, commit_hash), store_object(with_tree, commit))

\* a commit that looks for changes only after it has written everything
Repository_commit_checks_late(self, m, files, built, message, allow_empty, now) ==
    LET err == commit_checks(self, files, built, message, allow_empty, now) IN
    IF err = "" THEN commit_writes(self, m, files, built, message, now)
    ELSE IF err = "nothing to commit"
    THEN [commit_writes(self, m, files, built, message, now) EXCEPT
              !.ok = FALSE, !.err = err, !.value = <<>>]
    ELSE Outcome(FALSE, err, <<>>, self, m, files)

\* a commit without the guard against empty commits
Repository_commit_no_guard(self, m, files, built, message, allow_empty, now) ==
    LET err == commit_checks(self, files, built, message, TRUE, now) IN
    IF err = "" THEN commit_writes(self, m, files, built, message, now)
    ELSE Outcome(FALSE, err, <<>>, self, m, files)

\* commit(message, allow_empty); built is the Tree build_tree_from_directory made
Repository_commit(self, m, files, built, message, allow_empty, now) ==
    LET err == commit_checks(self, files, built, message, allow_empty, now) IN
    IF err = "" THEN commit_writes(self, m, files, built, message, now)
    ELSE Outcome(FALSE, err, <<>>, self, m, files)

\* the while loop of log()
RECURSIVE log_loop(_, _, _, _, _)
log_loop(files, current_hash, commits, max_count, now) ==
    IF ~TruthyOpt(current_hash) \/ Len(commits) >= max_count THEN commits
    ELSE LET commit == get_object(files, Val(current_hash), now) IN
         IF ~commit.ok \/ commit.obj.type # "commit" THEN commits
         ELSE log_loop(files, commit.obj.parent_hash,
                       Append(commits,
                              [hash |-> Commit_hash(commit.obj),
                               tree_hash |-> commit.obj.tree_hash,
                               parent_hash |-> commit.obj.parent_hash,
                               author |-> commit.obj.author,
                               message |-> commit.obj.message,
                               timestamp |-> commit.obj.timestamp]),
                       max_count, now)

Repository_log(self, files, max_count, now) ==
    IF ~self.is_valid_repo \/ ~TruthyOpt(self.head) THEN <<>>
    ELSE log_loop(files, self.head, <<>>, max_count, now)

(***************************************************************************)
(* Spec: one repository directory, its working files and its .pygit, used  *)
(* through Repository objects, with the files changing from outside too.   *)
(***************************************************************************)
RepoWorkTrees ==
    {EmptyFn,
     Str("a") :> FileNode(Str("1")),
     (Str("a") :> FileNode(Str("1")))
         @@ (Str("b") :> DirNode(Str("a") :> FileNode(Str("1"))))}

CommitMessages == {Str("m"), <<>>, <<SP>>}
UserNames == {Str("a")}
RepoDamage == {"garbage"}
\* the clock readings of the repository runs
CommitTimes == {1}

\* what iterdir() finds in the repository directory
RootListing == IF meta.exists THEN WithMeta(wt) ELSE wt

Init ==
    /\ objfiles = EmptyFn /\ stored = {} /\ tampered = EmptyFn
    /\ tree = Tree
    /\ wt = EmptyFn
    /\ meta = NoMeta
    /\ handle = (1 :> Repository_new(NoMeta))
    /\ history = <<>>
    /\ clean = FALSE
    /\ index = EmptyFn
    /\ NoTerminals
    /\ last = Idle

Open ==
    \E h \in DOMAIN handle :
        /\ handle' = [handle EXCEPT ![h] = Repository_new(meta)]
        /\ last' = [op |-> "open"]
        /\ UNCHANGED <<objfiles, stored, tampered, tree, wt, meta, history, clean, index,
                       terminals, uuids, pending>>

RepoInit ==
    \E h \in DOMAIN handle :
        LET r == Repository_init(handle[h], meta, objfiles) IN
        /\ handle' = [handle EXCEPT ![h] = r.self]
        /\ meta' = r.meta
        /\ last' = [op |-> "init", ok |-> r.ok, err |-> r.err]
        /\ UNCHANGED <<objfiles, stored, tampered, tree, wt, history, clean, index,
                       terminals, uuids, pending>>

SetUserConfig ==
    \E h \in DOMAIN handle, name \in UserNames :
        LET r == Repository_set_user_config(handle[h], meta, objfiles, name, Str("a")) IN
        /\ handle' = [handle EXCEPT ![h] = r.self]
        /\ meta' = r.meta
        /\ last' = [op |-> "set_user_config", ok |-> r.ok, err |-> r.err]
        /\ UNCHANGED <<objfiles, stored, tampered, tree, wt, history, clean, index,
                       terminals, uuids, pending>>

\* the state a commit call leaves: r is what the call returned, raised and wrote
CommitEffect(h, r, message, allow_empty) ==
    /\ objfiles' = r.files
    /\ stored' = stored \cup DOMAIN r.files
    /\ meta' = r.meta
    /\ handle' = [handle EXCEPT ![h] = r.self]
    /\ history' = IF r.ok THEN Append(history, r.value) ELSE history
    /\ clean' = IF r.ok THEN TRUE ELSE clean
    /\ last' = [op |-> "commit", ok |-> r.ok, err |-> r.err, value |-> r.value,
                allow_empty |-> allow_empty,
                was_clean |-> clean,
                message_ok |-> Strip(message) # <<>>,
                has_user |-> "user" \in DOMAIN handle[h].config,
                is_new |-> r.ok /\ r.value \notin DOMAIN objfiles,
                prev_err |-> IF last.op = "commit" THEN last.err ELSE ""]
    /\ UNCHANGED <<tampered, tree, wt, index, terminals, uuids, pending>>

DoCommit ==
    \E h \in DOMAIN handle, message \in CommitMessages, allow_empty \in BOOLEAN,
       now \in CommitTimes :
        /\ Len(history) < MaxCommits
        /\ \E built \in build_tree_from_directory(RootListing) :
              CommitEffect(h, Repository_commit(handle[h], meta, objfiles, built, message,
                                                allow_empty, now),
                           message, allow_empty)

Log ==
    \E h \in DOMAIN handle, max_count \in 0..MaxCount, now \in CommitTimes :
        /\ last' = [op |-> "log", max_count |-> max_count,
                    value |-> Repository_log(handle[h], objfiles, max_count, now)]
        /\ UNCHANGED <<objfiles, stored, tampered, tree, wt, meta, handle, history, clean, index,
                       terminals, uuids, pending>>

ChangeWorkTree ==
    \E d \in RepoWorkTrees \ {wt} :
        /\ wt' = d
        /\ clean' = FALSE
        /\ last' = [op |-> "write"]
        /\ UNCHANGED <<objfiles, stored, tampered, tree, meta, handle, history, index,
                       terminals, uuids, pending>>

DamageObject ==
    \E k \in DOMAIN objfiles, how \in RepoDamage :
        /\ Cardinality(DOMAIN tampered) < MaxTampered
        /\ k \notin DOMAIN tampered
        /\ objfiles' = [objfiles EXCEPT ![k] = tamper(@, how)]
        /\ tampered' = tampered @@ (k :> how)
        /\ last' = [op |-> "tamper"]
        /\ UNCHANGED <<stored, tree, wt, meta, handle, history, clean, index, terminals, uuids, pending>>

LoseConfig ==
    \E c \in {None, Some(BadJson)} :
        /\ meta.exists
        /\ ~IsNone(meta.config) /\ Val(meta.config).json
        /\ meta' = [meta EXCEPT !.config = c]
        /\ last' = [op |-> "lose_config"]
        /\ UNCHANGED <<objfiles, stored, tampered, tree, wt, handle, history, clean, index,
                       terminals, uuids, pending>>

Next ==
    \/ Open \/ RepoInit \/ SetUserConfig \/ DoCommit \/ Log
    \/ ChangeWorkTree \/ DamageObject \/ LoseConfig

Spec == Init /\ [][Next]_vars

\* every object reachable from the object named h has a file in the store
RECURSIVE AllStored(_, _)
AllStored(files, h) ==
    /\ h \in DOMAIN files
    /\ LET r == get_object(files, h, 1) IN
       r.ok =>
          CASE r.obj.type = "commit" -> AllStored(files, r.obj.tree_hash)
            [] r.obj.type = "tree" ->
                 \A i \in 1..Len(r.obj.entries) : AllStored(files, r.obj.entries[i].hash)
            [] OTHER -> TRUE

\* C1: after every successful commit, every object hash reachable from the new
\* commit (the commit, its root tree, and every blob and subtree named by a tree
\* entry, recursively) exists in the object store.
C1_ReachableStored ==
    (last.op = "commit" /\ last.ok) => AllStored(objfiles, last.value)

Min(a, b) == IF a <= b THEN a ELSE b

\* C2: after n successful commits on a freshly initialized repository, with no
\* object file damaged, log(k) returns min(n, k) entries, the first reporting
\* the hash the last commit call returned, each entry's parent_hash equal to the
\* next entry's reported hash, and the oldest entry having no parent when k >= n.
C2_LogChain ==
    (last.op = "log" /\ DOMAIN tampered = {}) =>
        LET n == Len(history)
            k == last.max_count
            entries == last.value
        IN /\ Len(entries) = Min(n, k)
           /\ Len(entries) > 0 => entries[1].hash = history[n]
           /\ \A i \in 1..(Len(entries) - 1) :
                 entries[i].parent_hash = Some(entries[i + 1].hash)
           /\ (k >= n /\ n > 0 /\ Len(entries) = n) => ~TruthyOpt(entries[n].parent_hash)

\* C5: empty-commit guard: when a commit has succeeded and the working tree was
\* not changed since, the next commit call (non-blank message, no object file
\* damaged) with allow_empty=False fails with "nothing to commit"; with
\* allow_empty=True, and an identity configured, it succeeds and creates a new
\* commit whose tree hash equals its parent's tree hash.
C5_EmptyCommitGuard ==
    (last.op = "commit" /\ last.was_clean /\ last.message_ok /\ DOMAIN tampered = {}) =>
        IF ~last.allow_empty
        THEN ~last.ok /\ last.err = "nothing to commit"
        ELSE last.has_user =>
                /\ last.ok /\ last.is_new
                /\ LET commit == get_object(objfiles, last.value, 1).obj
                       parent == get_object(objfiles, Val(commit.parent_hash), 1).obj
                   IN /\ parent.type = "commit"
                      /\ commit.tree_hash = parent.tree_hash

\* C5 witness: with the working tree untouched since the last commit, a commit
\* call was refused for having nothing to commit and the next call, with
\* allow_empty=True, made the second commit
C5_Witness ==
    /\ last.op = "commit" /\ last.ok /\ last.allow_empty /\ last.was_clean
    /\ last.prev_err = "nothing to commit"
    /\ Len(history) = 2

IsCommitFile(file) == file.zlib /\ StartsWith(file.data, <<<<"commit">>>>)

\* C6: a failed commit never advances HEAD: whenever a commit call fails, the
\* HEAD file, the ref files and the head of every Repository object are what
\* they were before the call, and no commit object was added to the store.
C6_FailedCommitKeepsHead ==
    [][(last'.op = "commit" /\ ~last'.ok) =>
          /\ meta'.HEAD = meta.HEAD
          /\ meta'.refs = meta.refs
          /\ \A h \in DOMAIN handle : handle'[h].head = handle[h].head
          /\ \A k \in DOMAIN objfiles' \ DOMAIN objfiles : ~IsCommitFile(objfiles'[k])
          /\ history' = history]_vars

\* C6 witness: after one commit, a commit call failed for want of an identity,
\* past the point where it had stored its tree
C6_Witness ==
    /\ last.op = "commit" /\ ~last.ok /\ last.err = "KeyError"
    /\ Len(history) = 1
    /\ ~last.was_clean

\* an object file as the format describes it: compressed, a header
\* '<kind> <len>' of a known kind, and len the length of the payload
WellFormedFile(file) ==
    /\ file.zlib
    /\ Find(file.data, NUL) > 0
    /\ LET null_pos == Find(file.data, NUL)
           parts == Split(SubSeq(file.data, 1, null_pos - 1), SP)
           payload == SubSeq(file.data, null_pos + 1, Len(file.data))
       IN /\ Len(parts) = 2
          /\ parts[1] \in object_classes
          /\ parts[2] = IntToStr(StrLen(payload))

\* C11: get_object returns an object only when the file exists, its header is
\* '<kind> <len>' with a known kind and the declared length is the length of
\* the payload; it fails with FileNotFoundError when the file is absent and
\* with another error in every other case, a wrong declared length included.
C11_GetObjectErrors ==
    last.op = "get" =>
        IF last.key \notin DOMAIN objfiles
        THEN ~last.value.ok /\ last.value.err = "FileNotFoundError"
        ELSE IF WellFormedFile(objfiles[last.key])
        THEN last.value.ok
        ELSE ~last.value.ok /\ last.value.err # "FileNotFoundError"

(***************************************************************************)
(* MerkleTree.compare_trees (core/merkle.py).  The three loops walk Python *)
(* sets of names, whose iteration order the interpreter chooses: order is  *)
(* that order, a sequence holding every name once.                         *)
(***************************************************************************)
SLASH == <<"/">>

\* Tree.get_entry(name): self.entries.get(name)
Tree_get_entry(t, name) ==
    IF \E i \in 1..Len(t.entries) : t.entries[i].name = name
    THEN Some(t.entries[CHOOSE i \in 1..Len(t.entries) : t.entries[i].name = name])
    ELSE None

\* the keys of {entry.name: entry for entry in tree.get_entries()}
entry_names(t) == {t.entries[i].name : i \in 1..Len(t.entries)}

\* the names of every entry of a, whether b has them or not
names_of_first(a, b) == a

\* names2 - names1
names_only_in(a, b) == a \ b

\* for name in <set>: the names of the set in iteration order
RECURSIVE Iterate(_, _)
Iterate(order, names) ==
    IF order = <<>> THEN <<>>
    ELSE (IF Head(order) \in names THEN <<Head(order)>> ELSE <<>>)
         \o Iterate(Tail(order), names)

\* _get_subtree(tree, name): both branches return None
get_subtree(t, name) ==
    LET entry == Tree_get_entry(t, name) IN
    IF ~IsNone(entry) /\ Val(entry).obj_type = Str("tree") THEN None ELSE None

\* what the first two loops append for one name
DiffItem(t, name) ==
    IF Val(Tree_get_entry(t, name)).obj_type = Str("blob") THEN name ELSE name \o <<SLASH>>

RECURSIVE compare_trees(_, _, _)
RECURSIVE compare_common(_, _, _, _, _)

\* the third loop, over names1 & names2
compare_common(tree1, tree2, names, differences, order) ==
    IF names = <<>> THEN differences
    ELSE LET name == Head(names)
             entry1 == Val(Tree_get_entry(tree1, name))
             entry2 == Val(Tree_get_entry(tree2, name))
             subtree1 == get_subtree(tree1, name)
             subtree2 == get_subtree(tree2, name)
             after ==
                 IF entry1.hash = entry2.hash THEN differences
                 ELSE IF entry1.obj_type = Str("blob")
                 THEN [differences EXCEPT !.modified = Append(@, name)]
                 ELSE IF ~IsNone(subtree1) /\ ~IsNone(subtree2)
                 THEN LET sub_diff == compare_trees(Val(subtree1), Val(subtree2), order)
                      IN [key \in DOMAIN differences |->
                             differences[key]
                             \o [i \in 1..Len(sub_diff[key]) |->
                                    name \o <<SLASH>> \o sub_diff[key][i]]]
                 ELSE differences
         IN compare_common(tree1, tree2, Tail(names), after, order)

compare_trees(tree1, tree2, order) ==
    LET names1 == entry_names(tree1)
        names2 == entry_names(tree2)
        added == Iterate(order, names_only_in(names2, names1))
        removed == Iterate(order, names_only_in(names1, names2))
        differences ==
            [added |-> [i \in 1..Len(added) |-> DiffItem(tree2, added[i])],
             removed |-> [i \in 1..Len(removed) |-> DiffItem(tree1, removed[i])],
             modified |-> <<>>,
             renamed |-> <<>>]
    IN compare_common(tree1, tree2, Iterate(order, names1 \cap names2), differences, order)

(***************************************************************************)
(* SpecDiff: compare_trees on the trees built from two directories.        *)
(***************************************************************************)
DiffNames == {Str("a"), Str("b")}

\* the pairs of a directory and a Tree built from it
BuiltTrees ==
    UNION {{[dir |-> d, tree |-> t] : t \in build_tree_from_directory(d)} : d \in WorkTrees}

InitDiff ==
    /\ NoRepository
    /\ objfiles = EmptyFn /\ stored = {} /\ tampered = EmptyFn
    /\ tree = Tree
    /\ last \in {[op |-> "trees", dir1 |-> b.dir, tree1 |-> b.tree,
                  dir2 |-> b.dir, tree2 |-> b.tree] : b \in BuiltTrees}

\* the new tree becomes the old one and another directory is built
NextTrees ==
    /\ last.op \in {"trees", "compare"}
    /\ \E b \in BuiltTrees :
          last' = [op |-> "trees", dir1 |-> last.dir2, tree1 |-> last.tree2,
                   dir2 |-> b.dir, tree2 |-> b.tree]
    /\ UNCHANGED <<objfiles, stored, tampered, tree, wt, meta, handle, history, clean, index,
                   terminals, uuids, pending>>

CompareTrees ==
    /\ last.op = "trees"
    /\ \E order \in Orders(DiffNames) :
          last' = [op |-> "compare", dir1 |-> last.dir1, tree1 |-> last.tree1,
                   dir2 |-> last.dir2, tree2 |-> last.tree2,
                   value |-> compare_trees(last.tree1, last.tree2, order)]
    /\ UNCHANGED <<objfiles, stored, tampered, tree, wt, meta, handle, history, clean, index,
                   terminals, uuids, pending>>

NextDiff == NextTrees \/ CompareTrees

SpecDiff == InitDiff /\ [][NextDiff]_vars

\* the entry of name n in a tree is a blob
IsBlobIn(t, n) ==
    ~IsNone(Tree_get_entry(t, n)) /\ Val(Tree_get_entry(t, n)).obj_type = Str("blob")

Listed(key, item) == item \in Range(last.value[key])

\* C12: diff classification for blob entries: a blob name is under 'added'
\* exactly when it is only in the new tree, under 'removed' exactly when it is
\* only in the old tree, under 'modified' exactly when it is a blob in both with
\* different hashes; with equal hashes it is in no list; no name is in two lists.
C12_BlobClassification ==
    last.op = "compare" =>
        \A n \in DiffNames :
            LET in1 == n \in entry_names(last.tree1)
                in2 == n \in entry_names(last.tree2)
            IN /\ Listed("added", n) <=> (in2 /\ ~in1 /\ IsBlobIn(last.tree2, n))
               /\ Listed("removed", n) <=> (in1 /\ ~in2 /\ IsBlobIn(last.tree1, n))
               /\ (IsBlobIn(last.tree1, n) /\ IsBlobIn(last.tree2, n)) =>
                     (Listed("modified", n) <=>
                        Val(Tree_get_entry(last.tree1, n)).hash
                            # Val(Tree_get_entry(last.tree2, n)).hash)
               /\ Listed("modified", n) =>
                     /\ in1 /\ in2
                     /\ Val(Tree_get_entry(last.tree1, n)).hash
                            # Val(Tree_get_entry(last.tree2, n)).hash
               /\ Cardinality({key \in {"added", "removed", "modified", "renamed"} :
                                  Listed(key, n)}) <= 1

\* C12 witness: old tree {a: "1"}, new tree {a: "2", b: "1"} gave added = [b],
\* modified = [a], removed = []
C12_Witness ==
    /\ last.op = "compare"
    /\ last.dir1 = (Str("a") :> FileNode(Str("1")))
    /\ last.dir2 = (Str("a") :> FileNode(Str("2"))) @@ (Str("b") :> FileNode(Str("1")))
    /\ last.value.added = <<Str("b")>>
    /\ last.value.modified = <<Str("a")>>
    /\ last.value.removed = <<>>

IsDirIn(dir, n) == n \in DOMAIN dir /\ dir[n].kind = "dir"
IsFileIn(dir, n) == n \in DOMAIN dir /\ dir[n].kind = "file"

\* C13: recursive diff: when a name is a directory in both trees and the two
\* subtree hashes differ, every file added, removed or modified below it is
\* reported under that key with the path '<directory>/<file>'.
C13_RecursiveDiff ==
    last.op = "compare" =>
        \A d \in DiffNames :
            (IsDirIn(last.dir1, d) /\ IsDirIn(last.dir2, d)) =>
                LET old == last.dir1[d].children
                    new == last.dir2[d].children
                IN \A f \in DiffNames :
                      LET path == d \o <<SLASH>> \o f IN
                      /\ (IsFileIn(new, f) /\ f \notin DOMAIN old) => Listed("added", path)
                      /\ (IsFileIn(old, f) /\ f \notin DOMAIN new) => Listed("removed", path)
                      /\ (IsFileIn(old, f) /\ IsFileIn(new, f) /\ old[f] # new[f])
                            => Listed("modified", path)

\* C14: type change: a name present in both trees whose kind changed, blob to
\* tree or tree to blob, is under 'modified' and under neither 'added' nor
\* 'removed'.
C14_TypeChange ==
    last.op = "compare" =>
        \A n \in DiffNames :
            (/\ n \in entry_names(last.tree1) /\ n \in entry_names(last.tree2)
             /\ IsBlobIn(last.tree1, n) # IsBlobIn(last.tree2, n))
                => /\ Listed("modified", n)
                   /\ ~Listed("added", n) /\ ~Listed("added", n \o <<SLASH>>)
                   /\ ~Listed("removed", n) /\ ~Listed("removed", n \o <<SLASH>>)

(***************************************************************************)
(* JSON, as json.dump writes it and json.load reads it.  A JSON value is   *)
(* tagged with its type; a number is its text: the decimal digits of an    *)
(* int, and those of a float followed by its fraction.  A file holds a     *)
(* JSON document or text that is not one.                                  *)
(***************************************************************************)
\* a Python number whose type matters: the floats here are whole (a time in
\* seconds), n is the value
Float(n) == [float |-> TRUE, n |-> n]
Int(n) == [float |-> FALSE, n |-> n]

JStr(s) == [t |-> "string", v |-> s]
JNum(n) == [t |-> "number", v |-> IntToStr(n)]
\* float.__repr__, which json.dump writes: 1.0
JFloat(n) == [t |-> "number", v |-> IntToStr(n) \o <<<<".">>, <<"0">>>>]
JArr(q) == [t |-> "array", v |-> q]
JObj(f) == [t |-> "object", v |-> f]

DigitValue(a) ==
    CASE a = <<"0">> -> 0 [] a = <<"1">> -> 1 [] a = <<"2">> -> 2 [] a = <<"3">> -> 3
      [] a = <<"4">> -> 4 [] a = <<"5">> -> 5 [] a = <<"6">> -> 6 [] a = <<"7">> -> 7
      [] a = <<"8">> -> 8 [] OTHER -> 9

\* the integer a JSON number is read as
RECURSIVE StrToInt(_)
StrToInt(s) ==
    IF s = <<>> THEN 0 ELSE StrToInt(SubSeq(s, 1, Len(s) - 1)) * 10 + DigitValue(s[Len(s)])

\* the Python value json.load makes of a string or a number
PyVal(j) == IF j.t = "number" THEN StrToInt(j.v) ELSE j.v

\* the number json.load makes of a number's text: a float when it has a
\* fraction, an int when it has none
PyNumber(j) ==
    IF \E i \in 1..Len(j.v) : j.v[i] = <<".">>
    THEN Float(StrToInt(SubSeq(j.v, 1, (CHOOSE i \in 1..Len(j.v) : j.v[i] = <<".">>) - 1)))
    ELSE Int(StrToInt(j.v))

JsonText(value) == [json |-> TRUE, value |-> value]
\* a file cut short: nothing of it written, or only the beginning
Truncated == [json |-> FALSE, value |-> [t |-> "text", v |-> "empty"]]
Partial == [json |-> FALSE, value |-> [t |-> "text", v |-> "partial"]]
\* text that is not JSON at all
NotJson == [json |-> FALSE, value |-> [t |-> "text", v |-> "garbage"]]

(***************************************************************************)
(* IndexEntry and Index (core/index.py).  entries is the dict path ->      *)
(* IndexEntry in insertion order; file is .pygit/index, None when absent.  *)
(***************************************************************************)
IndexEntry(path, mode, blob_hash, size, mtime, stage) ==
    [path |-> path, mode |-> mode, blob_hash |-> blob_hash, size |-> size,
     mtime |-> mtime, stage |-> stage]

IndexFields == {"path", "mode", "blob_hash", "size", "mtime", "stage"}

\* asdict(self), as JSON values
to_dict(e) ==
    JObj([k \in IndexFields |->
            CASE k = "path" -> JStr(e.path)
              [] k = "mode" -> JStr(e.mode)
              [] k = "blob_hash" -> JStr(e.blob_hash)
              [] k = "size" -> JNum(e.size)
              [] k = "mtime" -> IF e.mtime.float THEN JFloat(e.mtime.n)
                                ELSE JNum(e.mtime.n)
              [] OTHER -> JNum(e.stage)])

\* cls(**data): TypeError unless data is a dict whose keys are the fields,
\* stage being optional
from_dict(data) ==
    IF data.t # "object" THEN Raise("TypeError")
    ELSE IF ~(IndexFields \ {"stage"} \subseteq DOMAIN data.v) THEN Raise("TypeError")
    ELSE IF ~(DOMAIN data.v \subseteq IndexFields) THEN Raise("TypeError")
    ELSE Ok(IndexEntry(PyVal(data.v["path"]), PyVal(data.v["mode"]),
                       PyVal(data.v["blob_hash"]), PyVal(data.v["size"]),
                       PyNumber(data.v["mtime"]),
                       IF "stage" \in DOMAIN data.v THEN PyVal(data.v["stage"]) ELSE 0))

\* self.entries[entry.path] = entry
EntriesSet(es, entry) ==
    IF \E i \in 1..Len(es) : es[i].path = entry.path
    THEN [i \in 1..Len(es) |-> IF es[i].path = entry.path THEN entry ELSE es[i]]
    ELSE Append(es, entry)

\* del self.entries[path]
EntriesDel(es, path) ==
    LET keep == {i \in 1..Len(es) : es[i].path # path}
        RECURSIVE Kept(_)
        Kept(i) == IF i > Len(es) THEN <<>>
                   ELSE (IF i \in keep THEN <<es[i]>> ELSE <<>>) \o Kept(i + 1)
    IN Kept(1)

\* the for loop of load() over the items of data['entries']
RECURSIVE load_entries(_, _)
load_entries(items, entries) ==
    IF items = <<>> THEN Ok(entries)
    ELSE LET entry == from_dict(Head(items)) IN
         IF ~entry.ok THEN entry
         ELSE load_entries(Tail(items), EntriesSet(entries, entry.obj))

\* what iterating over a JSON value yields, <<>> when it yields nothing
IterItems(j) ==
    CASE j.t = "array" -> j.v
      [] j.t = "string" -> [i \in 1..Len(j.v) |-> JStr(<<j.v[i]>>)]
      [] j.t = "object" ->
            IF DOMAIN j.v = {} THEN <<>>
            ELSE <<JStr(Str(CHOOSE k \in DOMAIN j.v : TRUE))>>
      [] OTHER -> <<>>

\* load(): the entries it leaves, or the exception that escapes it
Index_load(file, entries) ==
    IF IsNone(file) THEN Ok(entries)
    ELSE IF ~Val(file).json THEN Ok(<<>>)
    ELSE LET data == Val(file).value IN
         IF data.t # "object" THEN Raise("AttributeError")
         ELSE IF "entries" \notin DOMAIN data.v THEN Ok(<<>>)
         ELSE IF data.v["entries"].t = "number" THEN Raise("TypeError")
         ELSE load_entries(IterItems(data.v["entries"]), <<>>)

\* Index(repo_path)
Index_new(file) == Index_load(file, <<>>)

\* the document save() writes
index_document(entries) ==
    JObj(("version" :> JNum(1))
         @@ ("entries" :> JArr([i \in 1..Len(entries) |-> to_dict(entries[i])])))

\* save(): what the index file holds as the write goes on: cut to nothing by
\* open(..., 'w'), then part of the text, then the whole document
save_steps(entries) == <<Truncated, Partial, JsonText(index_document(entries))>>

\* save(): the file when the write is complete
Index_save(entries) == Some(save_steps(entries)[3])

\* HashCalculator.hash_file_content: the digest of the raw bytes of the file
hash_file_content(node) == sha1(node.content)

\* a working file with its modification time (st_mtime, a float; whole seconds
\* here, mtime being their number); st_size is the number of bytes
StatFile(content, mtime) == [kind |-> "file", content |-> content, mtime |-> mtime]
st_size(node) == StrLen(node.content)

\* get_entry(path): self.entries.get(path)
Index_get_entry(entries, path) ==
    IF \E i \in 1..Len(entries) : entries[i].path = path
    THEN Some(entries[CHOOSE i \in 1..Len(entries) : entries[i].path = path])
    ELSE None

\* The outcome of a mutating Index method: what it returned or raised, the
\* entries it leaves, and whether it went through save().
IndexOutcome(ok, err, value, entries, saves) ==
    [ok |-> ok, err |-> err, value |-> value, entries |-> entries, saves |-> saves]

\* add_entry(entry): sets the entry, saves, returns None
Index_add_entry(entries, entry) ==
    IndexOutcome(TRUE, "", None, EntriesSet(entries, entry), TRUE)

\* a remove_entry that forgets to save
Index_remove_entry_unsaved(entries, path) ==
    IF ~IsNone(Index_get_entry(entries, path))
    THEN IndexOutcome(TRUE, "", TRUE, EntriesDel(entries, path), FALSE)
    ELSE IndexOutcome(TRUE, "", FALSE, entries, FALSE)

Index_remove_entry(entries, path) ==
    IF ~IsNone(Index_get_entry(entries, path))
    THEN IndexOutcome(TRUE, "", TRUE, EntriesDel(entries, path), TRUE)
    ELSE IndexOutcome(TRUE, "", FALSE, entries, FALSE)

Index_add_file(entries, dir, file_path, mode) ==
    IF file_path \notin DOMAIN dir
    THEN IndexOutcome(FALSE, "FileNotFoundError", None, entries, FALSE)
    ELSE IF dir[file_path].kind # "file"
    THEN IndexOutcome(FALSE, "ValueError", None, entries, FALSE)
    ELSE LET entry == IndexEntry(file_path, mode, hash_file_content(dir[file_path]),
                                 st_size(dir[file_path]),
                                 Float(dir[file_path].mtime), 0)
         IN  [Index_add_entry(entries, entry) EXCEPT !.value = Some(entry)]

Index_update_entry(entries, dir, file_path) ==
    LET entry == Index_get_entry(entries, file_path) IN
    IF IsNone(entry) THEN IndexOutcome(TRUE, "", None, entries, FALSE)
    ELSE Index_add_file(entries, dir, file_path, Val(entry).mode)

Index_clear(entries) == IndexOutcome(TRUE, "", None, <<>>, TRUE)

Index_is_file_modified(entries, dir, file_path) ==
    LET entry == Index_get_entry(entries, file_path) IN
    IF IsNone(entry) THEN FALSE
    ELSE IF file_path \notin DOMAIN dir THEN TRUE
    ELSE IF dir[file_path].mtime # Val(entry).mtime.n THEN TRUE
    ELSE IF st_size(dir[file_path]) # Val(entry).size THEN TRUE
    ELSE IF hash_file_content(dir[file_path]) # Val(entry).blob_hash THEN TRUE
    ELSE FALSE

(***************************************************************************)
(* SpecIndex: one Index object at a time over a directory of two files,    *)
(* with the files and the index file changing from outside, and the        *)
(* process dying in the middle of a save.                                  *)
(***************************************************************************)
IndexPaths == {Str("a"), Str("b")}
Mtimes == 1..MaxMtime

\* file a takes every content and time, file b one
IndexFileChoices ==
    [a |-> {StatFile(c, t) : c \in {Str("1"), Str("2"), <<<<"1">>, <<"2">>>>}, t \in Mtimes},
     b |-> {StatFile(Str("1"), 1)}]

\* an entry made by a caller of add_entry rather than by add_file
ForeignEntry == IndexEntry(Str("b"), Str("100755"), sha1(Str("9")), 3, Int(1), 2)

EntryObject(fields) == JObj([k \in fields |-> to_dict(ForeignEntry).v[k]])

\* index files that are not well-formed index documents
CorruptIndexFiles ==
    {NotJson, Truncated,
     JsonText(JArr(<<>>)),
     JsonText(JObj("version" :> JNum(1))),
     JsonText(JObj("entries" :> JNum(1))),
     JsonText(JObj("entries" :> JArr(<<JStr(Str("a"))>>))),
     JsonText(JObj("entries" :> JArr(<<EntryObject(IndexFields \ {"size"})>>))),
     JsonText(JObj("entries" :> JArr(<<EntryObject(IndexFields \ {"stage"})>>))),
     JsonText(JObj("entries" :>
         JArr(<<JObj(to_dict(ForeignEntry).v @@ ("extra" :> JNum(1)))>>)))}

TheIndex == 1

InitIndex ==
    /\ objfiles = EmptyFn /\ stored = {} /\ tampered = EmptyFn
    /\ tree = Tree
    /\ wt = EmptyFn
    /\ meta = [NoMeta EXCEPT !.exists = TRUE]
    /\ handle = EmptyFn
    /\ history = <<>> /\ clean = FALSE
    /\ index = (TheIndex :> [entries |-> <<>>])
    /\ NoTerminals
    /\ last = Idle

\* Index(repo_path): the object replaces the one the program held
IndexOpen ==
    LET r == Index_new(meta.index) IN
    /\ index' = IF r.ok THEN (TheIndex :> [entries |-> r.obj]) ELSE EmptyFn
    /\ last' = [op |-> "open", ok |-> r.ok, err |-> r.err, file |-> meta.index]
    /\ UNCHANGED <<objfiles, stored, tampered, tree, wt, meta, handle, history, clean,
                   terminals, uuids, pending>>

\* the state a mutating call leaves
IndexEffect(op, path, r) ==
    /\ index' = [index EXCEPT ![TheIndex].entries = r.entries]
    /\ meta' = IF r.saves THEN [meta EXCEPT !.index = Index_save(r.entries)] ELSE meta
    /\ last' = [op |-> op, path |-> path, ok |-> r.ok, err |-> r.err, value |-> r.value]
    /\ UNCHANGED <<objfiles, stored, tampered, tree, wt, handle, history, clean,
                   terminals, uuids, pending>>

IndexAddFile ==
    /\ TheIndex \in DOMAIN index
    /\ \E path \in IndexPaths :
          IndexEffect("add_file", path,
                      Index_add_file(index[TheIndex].entries, wt, path, Str("100644")))

IndexAddEntry ==
    /\ TheIndex \in DOMAIN index
    /\ IndexEffect("add_entry", ForeignEntry.path,
                   Index_add_entry(index[TheIndex].entries, ForeignEntry))

IndexUpdateEntry ==
    /\ TheIndex \in DOMAIN index
    /\ \E path \in IndexPaths :
          IndexEffect("update_entry", path,
                      Index_update_entry(index[TheIndex].entries, wt, path))

IndexRemoveEntry ==
    /\ TheIndex \in DOMAIN index
    /\ \E path \in IndexPaths :
          IndexEffect("remove_entry", path,
                      Index_remove_entry(index[TheIndex].entries, path))

IndexClear ==
    /\ TheIndex \in DOMAIN index
    /\ IndexEffect("clear", <<>>, Index_clear(index[TheIndex].entries))

IsFileModified ==
    /\ TheIndex \in DOMAIN index
    /\ \E path \in IndexPaths :
          last' = [op |-> "is_file_modified", path |-> path,
                   value |-> Index_is_file_modified(index[TheIndex].entries, wt, path)]
    /\ UNCHANGED <<objfiles, stored, tampered, tree, wt, meta, handle, history, clean,
                   index, terminals, uuids, pending>>

\* a file of the directory written (content and time set) from outside
WriteFile ==
    \E n \in {"a", "b"} :
        \E node \in IndexFileChoices[n] :
            /\ wt' = [p \in DOMAIN wt \cup {Str(n)} |-> IF p = Str(n) THEN node ELSE wt[p]]
            /\ wt' # wt
            /\ last' = [op |-> "write"]
            /\ UNCHANGED <<objfiles, stored, tampered, tree, meta, handle, history, clean,
                           index, terminals, uuids, pending>>

DeleteFile ==
    \E path \in DOMAIN wt :
        /\ wt' = [p \in DOMAIN wt \ {path} |-> wt[p]]
        /\ last' = [op |-> "delete"]
        /\ UNCHANGED <<objfiles, stored, tampered, tree, meta, handle, history, clean,
                       index, terminals, uuids, pending>>

\* the index file replaced from outside by something that is not an index
CorruptIndexFile ==
    \E c \in CorruptIndexFiles :
        /\ IF IsNone(meta.index) THEN TRUE ELSE Val(meta.index) \notin CorruptIndexFiles
        /\ meta' = [meta EXCEPT !.index = Some(c)]
        /\ last' = [op |-> "corrupt"]
        /\ UNCHANGED <<objfiles, stored, tampered, tree, wt, handle, history, clean,
                       index, terminals, uuids, pending>>

\* the process dies inside the save() of clear() or add_file(), after step
\* `at` of the write (0: before the file is opened); its Index object is gone
InterruptedSave ==
    /\ TheIndex \in DOMAIN index
    /\ \E r \in {Index_clear(index[TheIndex].entries)}
                \cup {Index_add_file(index[TheIndex].entries, wt, path, Str("100644")) :
                        path \in IndexPaths} :
          /\ r.saves
          /\ \E at \in 0..2 :
                /\ meta' = IF at = 0 THEN meta
                           ELSE [meta EXCEPT !.index = Some(save_steps(r.entries)[at])]
                /\ last' = [op |-> "interrupted", before |-> meta.index,
                            complete |-> Index_save(r.entries)]
    /\ index' = EmptyFn
    /\ UNCHANGED <<objfiles, stored, tampered, tree, wt, handle, history, clean,
                   terminals, uuids, pending>>

NextIndex ==
    \/ IndexOpen \/ IndexAddFile \/ IndexAddEntry \/ IndexUpdateEntry \/ IndexRemoveEntry \/ IndexClear
    \/ IsFileModified \/ WriteFile \/ DeleteFile \/ CorruptIndexFile \/ InterruptedSave

SpecIndex == InitIndex /\ [][NextIndex]_vars

\* C15: the modified-check trusts metadata: for a tracked path is_file_modified
\* is true when the file is missing or its size or mtime differs from the entry,
\* and false when size and mtime both equal the entry's, whatever the file now
\* holds; for an untracked path it is false.
C15_ModifiedTrustsMetadata ==
    (last.op = "is_file_modified" /\ TheIndex \in DOMAIN index) =>
        LET entry == Index_get_entry(index[TheIndex].entries, last.path) IN
        IF IsNone(entry) THEN last.value = FALSE
        ELSE IF last.path \notin DOMAIN wt THEN last.value = TRUE
        ELSE IF \/ st_size(wt[last.path]) # Val(entry).size
                \/ wt[last.path].mtime # Val(entry).mtime.n
        THEN last.value = TRUE
        ELSE last.value = FALSE

\* the last operation was a mutating call that went through to its end
CompletedMutation ==
    /\ last.op \in {"add_file", "add_entry", "update_entry", "remove_entry", "clear"}
    /\ last.ok
    /\ last.op = "update_entry" => ~IsNone(last.value)
    /\ last.op = "remove_entry" => last.value = TRUE

\* C16: index durability: after every completed mutating operation the index
\* file encodes exactly the in-memory entries, so that a new Index opened on the
\* repository holds the same mapping; an entry made by add_file has stage 0.
C16_IndexDurable ==
    CompletedMutation =>
        /\ ~IsNone(meta.index)
        /\ Index_new(meta.index) = Ok(index[TheIndex].entries)
        /\ last.op = "add_file" => Val(last.value).stage = 0

\* C16 witness: the second of two paths was removed and the file was rewritten
C16_Witness ==
    /\ last.op = "remove_entry" /\ last.value = TRUE
    /\ Len(index[TheIndex].entries) = 1
    /\ index[TheIndex].entries[1].path = Str("a")

\* a well-formed index document: an object with an array 'entries' of objects
\* that have exactly the fields of an IndexEntry
WellFormedIndex(file) ==
    /\ file.json
    /\ file.value.t = "object"
    /\ "entries" \in DOMAIN file.value.v
    /\ file.value.v["entries"].t = "array"
    /\ \A i \in 1..Len(file.value.v["entries"].v) :
          /\ file.value.v["entries"].v[i].t = "object"
          /\ DOMAIN file.value.v["entries"].v[i].v = IndexFields

\* C17: loading a corrupt index never fails hard: for every content of the index
\* file that is not a well-formed index, constructing an Index succeeds and its
\* entry set is empty.
C17_CorruptIndexLoads ==
    (last.op = "open" /\ ~IsNone(last.file) /\ ~WellFormedIndex(Val(last.file))) =>
        /\ last.ok
        /\ TheIndex \in DOMAIN index
        /\ index[TheIndex].entries = <<>>

\* C18: the index write is all-or-nothing: when the process is interrupted
\* during Index.save, the index file holds either the complete previous content
\* or the complete new content.
C18_AtomicIndexWrite ==
    last.op = "interrupted" => (meta.index = last.before \/ meta.index = last.complete)

(***************************************************************************)
(* SpecSteps: Repository.commit one file-system step at a time, on a       *)
(* repository that init has just created.  The Repository object carries   *)
(* the position pc inside commit and the locals of the call; the process   *)
(* may die between two steps, after which the repository is opened anew.   *)
(***************************************************************************)
TheRepo == 1

AtRest(self) == [is_valid_repo |-> self.is_valid_repo, config |-> self.config,
                 head |-> self.head, pc |-> "idle", locals |-> <<>>]

InitSteps ==
    LET r == Repository_init(Repository_new(NoMeta), NoMeta, EmptyFn) IN
    /\ objfiles = EmptyFn /\ stored = {} /\ tampered = EmptyFn
    /\ tree = Tree
    /\ wt = EmptyFn
    /\ meta = r.meta
    /\ handle = (TheRepo :> AtRest(r.self))
    /\ history = <<>> /\ clean = FALSE
    /\ index = EmptyFn
    /\ NoTerminals
    /\ last = Idle

\* lines 244-257: the checks, and the tree built in between
StepChecks ==
    /\ handle[TheRepo].pc = "idle"
    /\ Len(history) < MaxCommits
    /\ \E allow_empty \in BOOLEAN, now \in CommitTimes,
          built \in build_tree_from_directory(RootListing) :
          LET err == commit_checks(handle[TheRepo], objfiles, built, Str("m"),
                                   allow_empty, now)
          IN /\ handle' = [handle EXCEPT ![TheRepo].pc =
                                IF err = "" THEN "store_tree" ELSE "idle",
                             ![TheRepo].locals =
                                IF err = "" THEN <<[built |-> built, now |-> now]>> ELSE <<>>]
             /\ last' = [op |-> "commit", ok |-> FALSE, err |-> err, step |-> "checks"]
    /\ UNCHANGED <<objfiles, stored, tampered, tree, wt, meta, history, clean, index,
                   terminals, uuids, pending>>

\* open(object_path, 'wb') of store_object: the file exists and is empty
EmptyFile == [zlib |-> FALSE, data |-> <<>>]

\* store_object up to line 114: nothing when the file exists, else the
\* directory made and the file created empty
store_object_open(files, obj) ==
    IF object_exists(files, obj_hash(obj)) THEN files
    ELSE files @@ (obj_hash(obj) :> EmptyFile)

\* store_object line 115: the compressed bytes written to the open file
store_object_write(files, obj) ==
    [files EXCEPT ![obj_hash(obj)] = compress_object(obj_serialize(obj))]

\* line 260, self.odb.store_object(tree), up to the open of the file
StepOpenTree ==
    /\ handle[TheRepo].pc = "store_tree"
    /\ objfiles' = store_object_open(objfiles, handle[TheRepo].locals[1].built)
    /\ stored' = stored
    /\ handle' = [handle EXCEPT ![TheRepo].pc =
                     IF object_exists(objfiles, obj_hash(handle[TheRepo].locals[1].built))
                     THEN "store_commit" ELSE "write_tree"]
    /\ last' = [op |-> "commit", ok |-> FALSE, err |-> "", step |-> "open_tree"]
    /\ UNCHANGED <<tampered, tree, wt, meta, history, clean, index, terminals, uuids, pending>>

\* line 260, self.odb.store_object(tree): the write
StepWriteTree ==
    /\ handle[TheRepo].pc = "write_tree"
    /\ objfiles' = store_object_write(objfiles, handle[TheRepo].locals[1].built)
    /\ stored' = stored \cup {obj_hash(handle[TheRepo].locals[1].built)}
    /\ handle' = [handle EXCEPT ![TheRepo].pc = "store_commit"]
    /\ last' = [op |-> "commit", ok |-> FALSE, err |-> "", step |-> "write_tree"]
    /\ UNCHANGED <<tampered, tree, wt, meta, history, clean, index, terminals, uuids, pending>>

\* the outcome of the whole of lines 259-279 for the call in progress
Writes ==
    commit_writes([is_valid_repo |-> handle[TheRepo].is_valid_repo,
                   config |-> handle[TheRepo].config, head |-> handle[TheRepo].head],
                  meta, objfiles, handle[TheRepo].locals[1].built, Str("m"),
                  handle[TheRepo].locals[1].now)

\* lines 263-272: the Commit object of the call in progress
TheCommit ==
    LET user == handle[TheRepo].config["user"]
        author == user.name \o <<SP, <<"<">>>> \o user.email \o <<<<">">>>>
    IN Commit(Tree_hash(handle[TheRepo].locals[1].built), handle[TheRepo].head,
              author, author, Str("m"), handle[TheRepo].locals[1].now)

\* lines 263-274: the author from the config, the Commit, and
\* store_object(commit) up to the open of the file
StepOpenCommit ==
    /\ handle[TheRepo].pc = "store_commit"
    /\ objfiles' = IF Writes.ok THEN store_object_open(objfiles, TheCommit) ELSE objfiles
    /\ stored' = stored
    /\ handle' = [handle EXCEPT ![TheRepo].pc =
                     IF ~Writes.ok THEN "idle"
                     ELSE IF object_exists(objfiles, Writes.value) THEN "open_head"
                     ELSE "write_commit",
                                ![TheRepo].locals = IF Writes.ok THEN @ ELSE <<>>]
    /\ last' = [op |-> "commit", ok |-> FALSE, err |-> Writes.err, step |-> "open_commit"]
    /\ UNCHANGED <<tampered, tree, wt, meta, history, clean, index, terminals, uuids, pending>>

\* line 274, self.odb.store_object(commit): the write
StepWriteCommit ==
    /\ handle[TheRepo].pc = "write_commit"
    /\ objfiles' = store_object_write(objfiles, TheCommit)
    /\ stored' = stored \cup {obj_hash(TheCommit)}
    /\ handle' = [handle EXCEPT ![TheRepo].pc = "open_head"]
    /\ last' = [op |-> "commit", ok |-> FALSE, err |-> "", step |-> "write_commit"]
    /\ UNCHANGED <<tampered, tree, wt, meta, history, clean, index, terminals, uuids, pending>>

\* line 102: open(head_file, 'w') cuts the HEAD file to nothing
StepOpenHead ==
    /\ handle[TheRepo].pc = "open_head"
    /\ meta' = [meta EXCEPT !.HEAD = Some(<<>>)]
    /\ handle' = [handle EXCEPT ![TheRepo].pc = "write_head"]
    /\ last' = [op |-> "commit", ok |-> FALSE, err |-> "", step |-> "open_head"]
    /\ UNCHANGED <<objfiles, stored, tampered, tree, wt, history, clean, index,
                   terminals, uuids, pending>>

\* line 103: f.write('ref: refs/heads/main'), and the file is closed
StepWriteHead ==
    /\ handle[TheRepo].pc = "write_head"
    /\ meta' = [meta EXCEPT !.HEAD = Writes.meta.HEAD]
    /\ handle' = [handle EXCEPT ![TheRepo].pc = "open_ref"]
    /\ last' = [op |-> "commit", ok |-> FALSE, err |-> "", step |-> "write_head"]
    /\ UNCHANGED <<objfiles, stored, tampered, tree, wt, history, clean, index,
                   terminals, uuids, pending>>

\* line 108: open(ref_file, 'w') creates the ref file or cuts it to nothing
StepOpenRef ==
    /\ handle[TheRepo].pc = "open_ref"
    /\ meta' = [meta EXCEPT !.refs = [r \in DOMAIN meta.refs \cup {MAIN} |->
                                         IF r = MAIN THEN <<>> ELSE meta.refs[r]]]
    /\ handle' = [handle EXCEPT ![TheRepo].pc = "write_ref"]
    /\ last' = [op |-> "commit", ok |-> FALSE, err |-> "", step |-> "open_ref"]
    /\ UNCHANGED <<objfiles, stored, tampered, tree, wt, history, clean, index,
                   terminals, uuids, pending>>

\* lines 109-111 and 279: the hash written to the ref file, self.head, return
StepWriteRef ==
    /\ handle[TheRepo].pc = "write_ref"
    /\ meta' = Writes.meta
    /\ handle' = [handle EXCEPT ![TheRepo] = AtRest(Writes.self)]
    /\ history' = Append(history, Writes.value)
    /\ clean' = TRUE
    /\ last' = [op |-> "commit", ok |-> TRUE, err |-> "", step |-> "write_ref"]
    /\ UNCHANGED <<objfiles, stored, tampered, tree, wt, index, terminals, uuids, pending>>

\* the process dies inside commit and the repository is opened again
DieAndReopen ==
    /\ handle[TheRepo].pc # "idle"
    /\ handle' = [handle EXCEPT ![TheRepo] = AtRest(Repository_new(meta))]
    /\ last' = [op |-> "reopen"]
    /\ UNCHANGED <<objfiles, stored, tampered, tree, wt, meta, history, clean, index,
                   terminals, uuids, pending>>

\* the working directories of the stepwise runs
StepWorkTrees == {EmptyFn, Str("a") :> FileNode(Str("1"))}

\* the working files change while no commit is running
StepChangeWorkTree ==
    /\ handle[TheRepo].pc = "idle"
    /\ \E d \in StepWorkTrees \ {wt} :
          /\ wt' = d
          /\ clean' = FALSE
          /\ last' = [op |-> "write"]
          /\ UNCHANGED <<objfiles, stored, tampered, tree, meta, handle, history, index,
                         terminals, uuids, pending>>

NextSteps ==
    \/ StepChecks \/ StepOpenTree \/ StepWriteTree \/ StepOpenCommit \/ StepWriteCommit
    \/ StepOpenHead \/ StepWriteHead \/ StepOpenRef \/ StepWriteRef
    \/ DieAndReopen \/ StepChangeWorkTree

SpecSteps == InitSteps /\ [][NextSteps]_vars

\* C19: in every reachable state, the states between the file-system steps of
\* commit included, HEAD is unresolved exactly when no commit has succeeded
\* since init, and otherwise resolves through refs/heads/main to the most
\* recent commit made, which is in the object store with its root tree and
\* whose parent is the commit HEAD resolved to before.
C19_HeadResolves ==
    LET head == load_head(meta)
        n == Len(history)
    IN IF n = 0 THEN ~TruthyOpt(head)
       ELSE /\ TruthyOpt(head)
            /\ Val(head) = history[n]
            /\ get_object(objfiles, history[n], 1).ok
            /\ get_object(objfiles, history[n], 1).obj.type = "commit"
            /\ get_object(objfiles, get_object(objfiles, history[n], 1).obj.tree_hash, 1).ok
            /\ get_object(objfiles, history[n], 1).obj.parent_hash
                  = (IF n = 1 THEN None ELSE Some(history[n - 1]))

(***************************************************************************)
(* SpecInit: two Repository objects constructed on one root that nothing   *)
(* has initialised yet.  Each keeps the is_valid_repo it computed when it  *)
(* was constructed, until its own init or until it is constructed again.   *)
(***************************************************************************)
Handles == {1, 2}

InitTwo ==
    /\ objfiles = EmptyFn /\ stored = {} /\ tampered = EmptyFn
    /\ tree = Tree
    /\ wt = EmptyFn
    /\ meta = NoMeta
    /\ handle = [h \in Handles |-> Repository_new(NoMeta)]
    /\ history = <<>>
    /\ clean = FALSE
    /\ index = EmptyFn
    /\ NoTerminals
    /\ last = Idle

\* add (180-181), add_all (219-220), status (288-289), diff (361-362) and
\* tag (400-401) called on an object whose is_valid_repo is False: each
\* raises ValueError in its first statement
GuardedCalls == {"add", "add_all", "status", "diff", "tag"}

CallOnInvalid ==
    \E h \in DOMAIN handle, op \in GuardedCalls :
        /\ ~handle[h].is_valid_repo
        /\ last' = [op |-> op, ok |-> FALSE, err |-> "ValueError"]
        /\ UNCHANGED <<objfiles, stored, tampered, tree, wt, meta, handle, history,
                       clean, index, terminals, uuids, pending>>

NextInit ==
    \/ Open \/ RepoInit \/ SetUserConfig \/ DoCommit \/ ChangeWorkTree \/ CallOnInvalid

SpecInit == InitTwo /\ [][NextInit]_vars

\* C20: init succeeds only on a root that is not initialised, and then leaves
\* HEAD as 'ref: refs/heads/main' resolving to no commit; an init on an
\* initialised root fails and leaves config, HEAD, refs and objects as they
\* were; add, add_all, commit, status, diff, tag and set_user_config on a root
\* that is not initialised fail and do not create the metadata directory.
C20_InitOnlyOnce ==
    [][/\ (last'.op = "init" /\ last'.ok) =>
              /\ ~meta.exists
              /\ meta'.HEAD = Some(HEAD_REF)
              /\ ~TruthyOpt(load_head(meta'))
       /\ (last'.op = "init" /\ meta.exists) =>
              /\ ~last'.ok
              /\ meta' = meta
              /\ objfiles' = objfiles
       /\ (last'.op \in GuardedCalls \cup {"commit", "set_user_config"} /\ ~meta.exists) =>
              /\ ~last'.ok
              /\ ~meta'.exists
              /\ objfiles' = objfiles]_vars

(***************************************************************************)
(* Repository.tag, and SpecTag: one Repository object on an initialised    *)
(* root, committing, tagging, changing its identity and verifying the      *)
(* object store.                                                           *)
(***************************************************************************)
MaxTags == 1

\* ref_file = self.pygit_dir / 'refs' / 'tags' / tag_name
TagRef(tag_name) == <<<<"refs/tags/">>>> \o tag_name

\* f"{self.config['user']['name']} <{self.config['user']['email']}>"
author_of(config) ==
    config["user"].name \o <<SP, <<"<">>>> \o config["user"].email \o <<<<">">>>>

\* tag(tag_name, commit_hash, message)
Repository_tag(self, m, files, tag_name, commit_hash, message, now) ==
    IF ~self.is_valid_repo THEN Outcome(FALSE, "invalid repository", <<>>, self, m, files)
    ELSE LET target_hash == IF TruthyOpt(commit_hash) THEN commit_hash ELSE self.head IN
         IF ~TruthyOpt(target_hash)
         THEN Outcome(FALSE, "no commit to tag", <<>>, self, m, files)
         ELSE IF "user" \notin DOMAIN self.config
         THEN Outcome(FALSE, "KeyError", <<>>, self, m, files)
         ELSE LET tag == Tag(tag_name, Val(target_hash), Str("commit"),
                             author_of(self.config), message, now)
                  tag_hash == Tag_hash(tag)
              IN Outcome(TRUE, "", tag_hash, self,
                         [m EXCEPT !.refs = [r \in DOMAIN m.refs \cup {TagRef(tag_name)} |->
                                                IF r = TagRef(tag_name) THEN tag_hash
                                                ELSE m.refs[r]]],
                         store_object(files, tag))

\* TagCommand.execute with -d tag_name: a new Repository on the root; the ref
\* file is unlinked when it is there; code is what execute returns
TagCommand_delete(m, tag_name) ==
    IF ~Repository_new(m).is_valid_repo THEN [code |-> 1, meta |-> m]
    ELSE IF TagRef(tag_name) \in DOMAIN m.refs
    THEN [code |-> 0,
          meta |-> [m EXCEPT !.refs = [r \in DOMAIN m.refs \ {TagRef(tag_name)} |->
                                         m.refs[r]]]]
    ELSE [code |-> 1, meta |-> m]

TagNames == {Str("t")}
TagMessages == {Str("m")}
IdentityPairs ==
    {[name |-> Str("a"), email |-> Str("a")], [name |-> <<>>, email |-> Str("a")],
     [name |-> Str("a"), email |-> <<>>]}

InitTag ==
    LET r == Repository_init(Repository_new(NoMeta), NoMeta, EmptyFn) IN
    /\ objfiles = EmptyFn /\ stored = {} /\ tampered = EmptyFn
    /\ tree = Tree
    /\ wt = EmptyFn
    /\ meta = r.meta
    /\ handle = (TheRepo :> r.self)
    /\ history = <<>> /\ clean = FALSE
    /\ index = EmptyFn
    /\ NoTerminals
    /\ last = Idle

\* the hashes a caller may pass to tag: none, a stored object, no object
TagTargets == {None} \cup {Some(h) : h \in DOMAIN objfiles \cup {AbsentKey}}

\* is h the key of a commit that get_object reads back
IsStoredCommit(files, h) ==
    TruthyOpt(h) /\ get_object(files, Val(h), 1).ok
                 /\ get_object(files, Val(h), 1).obj.type = "commit"

TagEffect(r, tag_name, commit_hash) ==
    /\ objfiles' = r.files
    /\ stored' = stored \cup DOMAIN r.files
    /\ meta' = r.meta
    /\ last' = [op |-> "tag", ok |-> r.ok, err |-> r.err, value |-> r.value,
                tag_name |-> tag_name, commit_hash |-> commit_hash]
    /\ UNCHANGED <<tampered, tree, wt, handle, history, clean, index, terminals, uuids, pending>>

\* the keys of the object files whose header names a tag
TagKeys(files) ==
    {h \in DOMAIN files : files[h].data # <<>> /\ Head(files[h].data) = <<"tag">>}

DoTag ==
    \E tag_name \in TagNames, commit_hash \in TagTargets, message \in TagMessages,
       now \in CommitTimes :
        /\ Cardinality(DOMAIN meta.refs \ {MAIN}) < MaxTags
        /\ Cardinality(TagKeys(objfiles)) < MaxTags
        /\ TagEffect(Repository_tag(handle[TheRepo], meta, objfiles, tag_name, commit_hash,
                                    message, now),
                     tag_name, commit_hash)

DeleteTag ==
    \E tag_name \in TagNames :
        LET r == TagCommand_delete(meta, tag_name) IN
        /\ meta' = r.meta
        /\ last' = [op |-> "tag_delete", ok |-> r.code = 0, err |-> "", value |-> r.code,
                    tag_name |-> tag_name]
        /\ UNCHANGED <<objfiles, stored, tampered, tree, wt, handle, history, clean, index,
                       terminals, uuids, pending>>

SetIdentity ==
    \E id \in IdentityPairs :
        LET r == Repository_set_user_config(handle[TheRepo], meta, objfiles,
                                            id.name, id.email) IN
        /\ handle' = [handle EXCEPT ![TheRepo] = r.self]
        /\ meta' = r.meta
        /\ last' = [op |-> "set_user_config", ok |-> r.ok, err |-> r.err]
        /\ UNCHANGED <<objfiles, stored, tampered, tree, wt, history, clean, index,
                       terminals, uuids, pending>>

VerifyStore ==
    /\ last' = [op |-> "verify", value |-> verify_integrity(objfiles, 1)]
    /\ UNCHANGED <<objfiles, stored, tampered, tree, wt, meta, handle, history, clean, index,
                   terminals, uuids, pending>>

TagWorkTrees == {EmptyFn, Str("a") :> FileNode(Str("1"))}

TagChangeWorkTree ==
    \E d \in TagWorkTrees \ {wt} :
        /\ wt' = d
        /\ clean' = FALSE
        /\ last' = [op |-> "write"]
        /\ UNCHANGED <<objfiles, stored, tampered, tree, meta, handle, history, index,
                       terminals, uuids, pending>>

TagCommit ==
    \E allow_empty \in BOOLEAN, now \in CommitTimes :
        /\ Len(history) < MaxCommits
        /\ \E built \in build_tree_from_directory(RootListing) :
              CommitEffect(TheRepo,
                           Repository_commit(handle[TheRepo], meta, objfiles, built,
                                             Str("m"), allow_empty, now),
                           Str("m"), allow_empty)

NextTag ==
    \/ TagCommit \/ DoTag \/ DeleteTag \/ SetIdentity \/ TagChangeWorkTree \/ VerifyStore

SpecTag == InitTag /\ [][NextTag]_vars

\* C21: tag succeeds only when its target (the given hash, or HEAD when none
\* is given) names a commit in the object store, and then a Tag object with
\* that target is stored and refs/tags/<name> holds its hash; when the target
\* names no stored commit tag fails, stores nothing and writes no ref.
C21_TagTarget ==
    [][last'.op = "tag" =>
          LET target == IF TruthyOpt(last'.commit_hash) THEN last'.commit_hash
                        ELSE load_head(meta)
          IN IF IsStoredCommit(objfiles, target)
             THEN last'.ok =>
                     /\ get_object(objfiles', last'.value, 1).ok
                     /\ get_object(objfiles', last'.value, 1).obj.type = "tag"
                     /\ get_object(objfiles', last'.value, 1).obj.target_hash = Val(target)
                     /\ meta'.refs[TagRef(last'.tag_name)] = last'.value
             ELSE /\ ~last'.ok
                  /\ objfiles' = objfiles
                  /\ meta'.refs = meta.refs]_vars

\* the identity of a config is missing: no user section, or an empty name or email
NoIdentity(config) ==
    \/ "user" \notin DOMAIN config
    \/ config["user"].name = <<>>
    \/ config["user"].email = <<>>

\* the keys of the commit objects in the store
CommitKeys(files) ==
    {h \in DOMAIN files : get_object(files, h, 1).ok
                          /\ get_object(files, h, 1).obj.type = "commit"}

\* C22: whenever user.name or user.email is absent or empty in the config,
\* Repository.commit fails with a ValueError, creates no commit object and
\* does not advance HEAD.
C22_CommitNeedsIdentity ==
    [][(last'.op = "commit" /\ NoIdentity(handle[TheRepo].config)) =>
          /\ ~last'.ok
          /\ last'.err \in {"invalid repository", "empty message", "nothing to commit",
                            "no identity"}
          /\ CommitKeys(objfiles') = CommitKeys(objfiles)
          /\ load_head(meta') = load_head(meta)]_vars

(***************************************************************************)
(* SpecMerkle: a directory is changed by one file at a time, at the root   *)
(* or inside a subdirectory, and build_tree_from_directory is run again.   *)
(* File names are whatever the file system allows: a name may hold line    *)
(* feeds and tabs, and so may spell out a line of a Tree's content.        *)
(***************************************************************************)
\* "\n100644 blob <hash of the file content '1'>\t"
LineBreak ==
    <<LF, <<"100644">>, SP, <<"blob">>, SP>> \o Blob_hash(Blob(Str("1"))) \o <<TAB>>

MerkleNames ==
    {Str("a"), Str("b"),
     LineBreak \o Str("c"), LineBreak \o Str("c") \o LineBreak, Str("c") \o LineBreak}
MerkleSubNames == {Str("a"), Str("b")}

FilesOf(d) == {n \in DOMAIN d : d[n].kind = "file"}
DirsOf(d) == {n \in DOMAIN d : d[n].kind = "dir"}

Without(d, n) == [x \in DOMAIN d \ {n} |-> d[x]]

\* the directories one change of the given kind to one file can make of d
RECURSIVE Changes(_, _, _)
Changes(d, names, kind) ==
    (CASE kind = "content" ->
              UNION {{[d EXCEPT ![n] = FileNode(c)] : c \in FileContents \ {d[n].content}} :
                     n \in FilesOf(d)}
       [] kind = "added" ->
              {d @@ (n :> FileNode(c)) : n \in names \ DOMAIN d, c \in FileContents}
       [] kind = "removed" ->
              {Without(d, n) : n \in FilesOf(d)}
       [] kind = "renamed" ->
              UNION {{Without(d, n) @@ (n2 :> d[n]) : n2 \in names \ DOMAIN d} :
                     n \in FilesOf(d)})
    \cup UNION {{[d EXCEPT ![n] = DirNode(c)] :
                    c \in Changes(d[n].children, MerkleSubNames, kind)} : n \in DirsOf(d)}

\* no directory of d lists more than MaxEntries names
RECURSIVE Fits(_)
Fits(d) ==
    /\ Cardinality(DOMAIN d) <= MaxEntries
    /\ \A n \in DirsOf(d) : Fits(d[n].children)

MerkleStart ==
    {EmptyFn, Str("b") :> DirNode(EmptyFn),
     Str("b") :> DirNode(Str("a") :> FileNode(Str("1")))}

InitMerkle ==
    /\ objfiles = EmptyFn /\ stored = {} /\ tampered = EmptyFn
    /\ meta = NoMeta /\ handle = EmptyFn /\ history = <<>> /\ clean = FALSE
    /\ index = EmptyFn
    /\ wt \in MerkleStart
    /\ tree \in build_tree_from_directory(wt)
    /\ NoTerminals
    /\ last = Idle

Rebuild(d, kind) ==
    /\ Fits(d)
    /\ wt' = d
    /\ \E t \in build_tree_from_directory(d) :
          /\ tree' = t
          /\ last' = [op |-> "rebuild", kind |-> kind,
                      before |-> Tree_hash(tree), after |-> Tree_hash(t)]
    /\ UNCHANGED <<objfiles, stored, tampered, meta, handle, history, clean, index,
                   terminals, uuids, pending>>

ContentChanged == \E d \in Changes(wt, MerkleNames, "content") : Rebuild(d, "content")

FileAdded == \E d \in Changes(wt, MerkleNames, "added") : Rebuild(d, "added")

FileRemoved == \E d \in Changes(wt, MerkleNames, "removed") : Rebuild(d, "removed")

FileRenamed == \E d \in Changes(wt, MerkleNames, "renamed") : Rebuild(d, "renamed")

NextMerkle == ContentChanged \/ FileAdded \/ FileRemoved \/ FileRenamed

SpecMerkle == InitMerkle /\ [][NextMerkle]_vars

\* the entry a Tree holds under a name, as a set: empty when there is none
EntriesNamed(t, name) == {t.entries[i] : i \in {j \in 1..Len(t.entries) : t.entries[j].name = name}}

\* C23: after any single change to a file at any depth (content changed, file
\* added, removed or renamed) the root hash of the rebuilt tree differs from
\* the root hash before; every file is entered as blob with mode 100644 and
\* every subdirectory as tree with mode 040000 and the hash of its own tree.
C23_MerklePropagation ==
    /\ last.op = "rebuild" => last.before # last.after
    /\ \A n \in DOMAIN wt :
          \E e \in EntriesNamed(tree, n) :
              IF wt[n].kind = "file"
              THEN /\ e.obj_type = Str("blob") /\ e.mode = Str("100644")
                   /\ e.hash = Blob_hash(Blob_from_file(wt[n]))
              ELSE /\ e.obj_type = Str("tree") /\ e.mode = Str("040000")
                   /\ e.hash \in {Tree_hash(t) :
                                     t \in build_tree_recursive(wt[n].children, Tree,
                                                                default_ignore_patterns)}

(***************************************************************************)
(* TerminalStore and the persistent-terminal tools                         *)
(* (code_agent_implementation/tools/terminal_tools.py).  A terminal is a   *)
(* bash process with the two pipes Popen gave it: state "running", "deaf"  *)
(* (running with SIGTERM ignored, after the command trap '' TERM),         *)
(* "signalled" (SIGTERM sent and not yet delivered) or "exited"; stdin is  *)
(* the lines written and not yet read by bash, stdout the exit statuses of *)
(* the COMMAND_FINISHED_<status> lines printed and still in the pipe,      *)
(* buffer those the text reader of terminal.stdout has taken from the pipe *)
(* and not yet returned, status the shell's $?.  listed says the id is a   *)
(* key of _terminals.  The tools may be called from several threads:       *)
(* pending holds the calls that have begun and not returned, each with the *)
(* step it is at.  The reader is shared and has no lock of its own: a call *)
(* that found the buffer empty waits for the pipe and does not see what    *)
(* another call leaves in the buffer meanwhile, and replaces the buffer    *)
(* with what its own read of the pipe brings.                              *)
(***************************************************************************)
MaxTerminals == 2
MaxThreads == 2

TerminalIds == 1..MaxTerminals
Threads == 1..MaxThreads
Commands == {"true", "false", "exit", "trap '' TERM"}
Echo == "echo COMMAND_FINISHED_$?"

\* TerminalStore.list_terminals
list_terminals(ts) == {t \in DOMAIN ts : ts[t].listed}

\* TerminalStore.create_terminal: terminal_id is what uuid4() returned
create_terminal(ts, terminal_id) ==
    [t \in DOMAIN ts \cup {terminal_id} |->
        IF t = terminal_id
        THEN [listed |-> TRUE, state |-> "running", stdin |-> <<>>,
              stdout |-> <<>>, buffer |-> <<>>, status |-> 0]
        ELSE ts[t]]

\* TerminalStore.get_terminal: the process is known by its id
get_terminal(ts, terminal_id) ==
    IF terminal_id \in list_terminals(ts) THEN Some(terminal_id) ELSE None

\* Popen.terminate(): SIGTERM is sent to a process that has not exited; a
\* shell that ignores it is left as it is
terminate(process) ==
    IF process.state = "running" THEN [process EXCEPT !.state = "signalled"]
    ELSE process

\* the kernel delivers the SIGTERM: the shell ends and its pipes close
deliver(process) == [process EXCEPT !.state = "exited", !.stdin = <<>>]

\* bash reads the next line of its stdin and runs it
bash(process) ==
    LET line == Head(process.stdin)
        rest == Tail(process.stdin)
    IN  CASE line = "true" -> [process EXCEPT !.stdin = rest, !.status = 0]
          [] line = "false" -> [process EXCEPT !.stdin = rest, !.status = 1]
          [] line = "trap '' TERM" ->
                 [process EXCEPT !.stdin = rest, !.status = 0, !.state = "deaf"]
          [] line = "exit" -> [process EXCEPT !.stdin = <<>>, !.state = "exited"]
          [] line = Echo ->
                 [process EXCEPT !.stdin = rest, !.status = 0,
                                 !.stdout = Append(@, process.status)]

\* terminal.stdin.write(line): line buffered, so the line goes to the pipe at
\* once; BrokenPipeError when the shell has exited
stdin_write(process, line) ==
    IF process.state = "exited" THEN [ok |-> FALSE, process |-> process]
    ELSE [ok |-> TRUE, process |-> [process EXCEPT !.stdin = Append(@, line)]]

\* terminal.stdout.readline() with a line in the reader's buffer: the
\* COMMAND_FINISHED line ends the loop with its exit code
readline(process) ==
    [output |-> "", exit_code |-> Head(process.buffer),
     process |-> [process EXCEPT !.buffer = Tail(@)]]

\* the reader's read of the pipe blocks while the pipe is empty and the shell
\* has not exited; the timeout is looked at only between lines
readline_blocked(process) == process.stdout = <<>> /\ process.state # "exited"

\* the read of the pipe returns: everything in the pipe becomes the buffer,
\* whatever the buffer held, and its first line ends the loop; at end of file
\* the buffer is emptied and readline returns '' until the timeout has passed
read_chunk(process) ==
    IF process.stdout # <<>>
    THEN [output |-> "", exit_code |-> Head(process.stdout),
          process |-> [process EXCEPT !.stdout = <<>>, !.buffer = Tail(process.stdout)]]
    ELSE [output |-> "timed out", exit_code |-> 0 - 1,
          process |-> [process EXCEPT !.buffer = <<>>]]

\* PersistentTerminalCommandTool._run, line 166: the step the call goes to
\* (None when it returns at once)
run_persistent_command(ts, persistent_terminal_id) ==
    IF IsNone(get_terminal(ts, persistent_terminal_id)) THEN None
    ELSE Some("write_command")

\* TerminalStore.kill_terminal, lines 71-73 and 77: what the call returns at
\* once (None while it goes on to wait()) and the processes it leaves
kill_terminal_begin(ts, terminal_id) ==
    IF IsNone(get_terminal(ts, terminal_id))
    THEN [value |-> Some(FALSE), terminals |-> ts]
    ELSE [value |-> None,
          terminals |-> [ts EXCEPT ![terminal_id] = terminate(@)]]

\* TerminalStore.kill_terminal, lines 75-76, once wait() has returned: del
\* raises KeyError when another call has removed the id meanwhile
kill_terminal_end(ts, terminal_id) ==
    IF terminal_id \in list_terminals(ts)
    THEN [ok |-> TRUE, terminals |-> [ts EXCEPT ![terminal_id].listed = FALSE]]
    ELSE [ok |-> FALSE, terminals |-> ts]

\* PersistentTerminalKillTool._run: the message for what kill_terminal returned
kill_message(killed) == IF killed THEN "killed successfully" ELSE "not found"

\* a call begins on a thread that runs no call
Free == Threads \ DOMAIN pending
Begin(th, call) == [t \in DOMAIN pending \cup {th} |-> IF t = th THEN call ELSE pending[t]]
Return(th) == [t \in DOMAIN pending \ {th} |-> pending[t]]

InitTerminal ==
    /\ objfiles = EmptyFn /\ stored = {} /\ tampered = EmptyFn
    /\ tree = Tree
    /\ NoRepository
    /\ last = Idle

CreateTerminal ==
    /\ Free # {}
    /\ \E terminal_id \in TerminalIds \ uuids :
          /\ terminals' = create_terminal(terminals, terminal_id)
          /\ uuids' = uuids \cup {terminal_id}
          /\ last' = [op |-> "create", id |-> terminal_id]
    /\ UNCHANGED <<objfiles, stored, tampered, tree, wt, meta, handle, history, clean,
                   index, pending>>

ListTerminals ==
    /\ Free # {}
    /\ last' = [op |-> "list", value |-> list_terminals(terminals)]
    /\ UNCHANGED <<objfiles, stored, tampered, tree, wt, meta, handle, history, clean,
                   index, terminals, uuids, pending>>

\* _run, lines 166-171: the lookup
RunCommand ==
    /\ \E th \in Free, id \in TerminalIds, command \in Commands :
          LET pc == run_persistent_command(terminals, id) IN
          IF IsNone(pc)
          THEN /\ pending' = pending
               /\ last' = [op |-> "run", id |-> id, output |-> "not found",
                           exit_code |-> 0 - 1]
          ELSE /\ pending' = Begin(th, [op |-> "run", id |-> id, command |-> command,
                                        pc |-> Val(pc)])
               /\ last' = [op |-> "running", id |-> id, pc |-> Val(pc)]
    /\ UNCHANGED <<objfiles, stored, tampered, tree, wt, meta, handle, history, clean,
                   index, terminals, uuids>>

\* _run, line 175, and lines 204-208 when the write raises
RunWriteCommand ==
    /\ \E th \in DOMAIN pending :
          /\ pending[th].op = "run" /\ pending[th].pc = "write_command"
          /\ LET id == pending[th].id
                 w == stdin_write(terminals[id], pending[th].command)
             IN  /\ terminals' = [terminals EXCEPT ![id] = w.process]
                 /\ IF w.ok
                    THEN /\ pending' = [pending EXCEPT ![th].pc = "write_echo"]
                         /\ last' = [op |-> "running", id |-> id, pc |-> "write_echo"]
                    ELSE /\ pending' = Return(th)
                         /\ last' = [op |-> "run", id |-> id,
                                     output |-> "Error running command",
                                     exit_code |-> 0 - 1]
    /\ UNCHANGED <<objfiles, stored, tampered, tree, wt, meta, handle, history, clean,
                   index, uuids>>

\* _run, lines 176-177, and lines 204-208 when the write raises
RunWriteEcho ==
    /\ \E th \in DOMAIN pending :
          /\ pending[th].op = "run" /\ pending[th].pc = "write_echo"
          /\ LET id == pending[th].id
                 w == stdin_write(terminals[id], Echo)
             IN  /\ terminals' = [terminals EXCEPT ![id] = w.process]
                 /\ IF w.ok
                    THEN /\ pending' = [pending EXCEPT ![th].pc = "readline"]
                         /\ last' = [op |-> "running", id |-> id, pc |-> "readline"]
                    ELSE /\ pending' = Return(th)
                         /\ last' = [op |-> "run", id |-> id,
                                     output |-> "Error running command",
                                     exit_code |-> 0 - 1]
    /\ UNCHANGED <<objfiles, stored, tampered, tree, wt, meta, handle, history, clean,
                   index, uuids>>

\* _run, lines 184-188: readline() finds a line in the reader's buffer and
\* the call returns, or finds none and goes to read the pipe
RunReadline ==
    /\ \E th \in DOMAIN pending :
          /\ pending[th].op = "run" /\ pending[th].pc = "readline"
          /\ LET id == pending[th].id
                 r == readline(terminals[id])
             IN  IF terminals[id].buffer # <<>>
                 THEN /\ terminals' = [terminals EXCEPT ![id] = r.process]
                      /\ pending' = Return(th)
                      /\ last' = [op |-> "run", id |-> id, output |-> r.output,
                                  exit_code |-> r.exit_code]
                 ELSE /\ terminals' = terminals
                      /\ pending' = [pending EXCEPT ![th].pc = "read"]
                      /\ last' = [op |-> "running", id |-> id, pc |-> "read"]
    /\ UNCHANGED <<objfiles, stored, tampered, tree, wt, meta, handle, history, clean,
                   index, uuids>>

\* _run, lines 183-203: the read of the pipe returns, the loop ends and the
\* call returns
RunReturns ==
    /\ \E th \in DOMAIN pending :
          /\ pending[th].op = "run" /\ pending[th].pc = "read"
          /\ ~readline_blocked(terminals[pending[th].id])
          /\ LET id == pending[th].id
                 r == read_chunk(terminals[id])
             IN  /\ terminals' = [terminals EXCEPT ![id] = r.process]
                 /\ last' = [op |-> "run", id |-> id, output |-> r.output,
                             exit_code |-> r.exit_code]
          /\ pending' = Return(th)
    /\ UNCHANGED <<objfiles, stored, tampered, tree, wt, meta, handle, history, clean,
                   index, uuids>>

KillTerminal ==
    /\ \E th \in Free, id \in TerminalIds :
          LET r == kill_terminal_begin(terminals, id) IN
          /\ terminals' = r.terminals
          /\ pending' = IF IsNone(r.value)
                        THEN Begin(th, [op |-> "kill", id |-> id, pc |-> "wait"])
                        ELSE pending
          /\ last' = IF IsNone(r.value) THEN [op |-> "killing", id |-> id]
                     ELSE [op |-> "kill", id |-> id, message |-> kill_message(Val(r.value))]
    /\ UNCHANGED <<objfiles, stored, tampered, tree, wt, meta, handle, history, clean,
                   index, uuids>>

\* terminal.wait() returns once the process has exited
KillReturns ==
    /\ \E th \in DOMAIN pending :
          /\ pending[th].op = "kill"
          /\ terminals[pending[th].id].state = "exited"
          /\ LET r == kill_terminal_end(terminals, pending[th].id) IN
                /\ terminals' = r.terminals
                /\ last' = [op |-> "kill", id |-> pending[th].id,
                            message |-> IF r.ok THEN kill_message(TRUE) ELSE "KeyError"]
          /\ pending' = Return(th)
    /\ UNCHANGED <<objfiles, stored, tampered, tree, wt, meta, handle, history, clean,
                   index, uuids>>

\* the shell of a terminal runs the next line written to it
Bash ==
    /\ \E id \in DOMAIN terminals :
          /\ terminals[id].state \in {"running", "deaf"}
          /\ terminals[id].stdin # <<>>
          /\ terminals' = [terminals EXCEPT ![id] = bash(@)]
          /\ last' = [op |-> "bash", id |-> id]
    /\ UNCHANGED <<objfiles, stored, tampered, tree, wt, meta, handle, history, clean,
                   index, uuids, pending>>

\* the SIGTERM of terminate() reaches the shell
Sigterm ==
    /\ \E id \in DOMAIN terminals :
          /\ terminals[id].state = "signalled"
          /\ terminals' = [terminals EXCEPT ![id] = deliver(@)]
          /\ last' = [op |-> "SIGTERM", id |-> id]
    /\ UNCHANGED <<objfiles, stored, tampered, tree, wt, meta, handle, history, clean,
                   index, uuids, pending>>

NextTerminal ==
    \/ CreateTerminal \/ ListTerminals
    \/ RunCommand \/ RunWriteCommand \/ RunWriteEcho \/ RunReadline \/ RunReturns
    \/ KillTerminal \/ KillReturns
    \/ Bash \/ Sigterm

SpecTerminal == InitTerminal /\ [][NextTerminal]_vars

\* C24: an id create returned is listed from then until it is killed and never
\* after; killing a listed id reports success and removes exactly that id;
\* running a command or killing with an id that is not listed gives an error
\* result and neither creates nor removes a terminal.
C24_TerminalRegistry ==
    /\ [][/\ last'.op = "create" =>
                 /\ last'.id \notin uuids
                 /\ list_terminals(terminals') = list_terminals(terminals) \cup {last'.id}
          /\ last'.op = "list" =>
                 /\ last'.value = list_terminals(terminals)
                 /\ list_terminals(terminals') = list_terminals(terminals)
          /\ last'.op \in {"run", "running", "killing", "bash", "SIGTERM"} =>
                 list_terminals(terminals') = list_terminals(terminals)
          /\ last'.op = "run" /\ pending' = pending =>
                 /\ last'.id \notin list_terminals(terminals)
                 /\ last'.exit_code = 0 - 1 /\ last'.output = "not found"
          /\ last'.op \in {"running", "killing"} /\ DOMAIN pending' # DOMAIN pending =>
                 last'.id \in list_terminals(terminals)
          /\ last'.op = "kill" =>
                 IF pending' = pending
                 THEN /\ last'.id \notin list_terminals(terminals)
                      /\ last'.message = "not found"
                      /\ list_terminals(terminals') = list_terminals(terminals)
                 ELSE /\ last'.message = "killed successfully"
                      /\ list_terminals(terminals) = list_terminals(terminals') \cup {last'.id}
                      /\ last'.id \notin list_terminals(terminals')]_vars
    /\ [](\A th \in DOMAIN pending :
              pending[th].op = "kill" => terminals[pending[th].id].state # "deaf")

\* the bytes a store would write for o if the header counted the payload's bytes
FramedBytes(o) ==
    encode(TypeName(o) \o <<SP>> \o IntToStr(StrLen(obj_content(o))) \o <<NUL>>)
        \o obj_content(o)

\* C25: for every Blob, Tree, Commit and Tag x, x.hash is the SHA-1 of
\* x.serialize(), and the length in the serialized header is the byte length
\* of the UTF-8 encoded payload, multi-byte characters included.
C25_KeyIsDigestOfBytes ==
    last.op \in {"new", "roundtrip"} =>
        /\ obj_hash(last.obj) = sha1(obj_serialize(last.obj))
        /\ obj_serialize(last.obj) = FramedBytes(last.obj)

\* C26: after any sequence of successful commit and tag operations, with no
\* object file changed from outside, verify_integrity reports no corrupted
\* object and as many valid objects as there are objects.
C26_UntamperedHealthy ==
    last.op = "verify" =>
        /\ last.value.corrupted_objects = 0
        /\ last.value.valid_objects = last.value.total_objects
        /\ last.value.total_objects = Cardinality(DOMAIN objfiles)

\* C27: compare_trees returns empty added, removed and modified lists if and
\* only if the two root hashes are equal.
C27_DiffAgreesWithHash ==
    last.op = "compare" =>
        ((last.value.added = <<>> /\ last.value.removed = <<>> /\ last.value.modified = <<>>)
            <=> Tree_hash(last.tree1) = Tree_hash(last.tree2))

(***************************************************************************)
(* SpecTwo: two Repository objects opened on one initialised root; commits *)
(* are made through either, each call running to its end.                  *)
(***************************************************************************)
InitBoth ==
    LET r == Repository_init(Repository_new(NoMeta), NoMeta, EmptyFn) IN
    /\ objfiles = EmptyFn /\ stored = {} /\ tampered = EmptyFn
    /\ tree = Tree
    /\ wt = EmptyFn
    /\ meta = r.meta
    /\ handle = [h \in Handles |-> Repository_new(r.meta)]
    /\ history = <<>> /\ clean = FALSE
    /\ index = EmptyFn
    /\ NoTerminals
    /\ last = Idle

NextTwo == DoCommit \/ ChangeWorkTree

SpecTwo == InitBoth /\ [][NextTwo]_vars

\* the commits reached from the commit named h by following parents
RECURSIVE Ancestors(_, _, _)
Ancestors(files, h, fuel) ==
    IF ~TruthyOpt(h) \/ fuel = 0 THEN {}
    ELSE LET c == get_object(files, Val(h), 1) IN
         IF ~c.ok \/ c.obj.type # "commit" THEN {Val(h)}
         ELSE {Val(h)} \cup Ancestors(files, c.obj.parent_hash, fuel - 1)

\* C28: with two Repository objects open on one initialised root and commits
\* made through them in turn, every successful commit's parent is the commit
\* the branch ref on disk named just before, so every earlier commit stays
\* reachable from HEAD by following parents.
C28_LinearAcrossHandles ==
    [][(last'.op = "commit" /\ last'.ok) =>
          /\ get_object(objfiles', last'.value, 1).obj.parent_hash
                = (IF TruthyOpt(load_head(meta)) THEN load_head(meta) ELSE None)
          /\ Range(history') \subseteq
                Ancestors(objfiles', load_head(meta'), Len(history') + 1)]_vars

(***************************************************************************)
(* The staging area of a repository (repository_manager.py add, add_all,   *)
(* status).  The files below the root are the working files of wt and the  *)
(* files of the metadata directory, which are files like any other.        *)
(***************************************************************************)
\* The pieces of text json.dump(..., indent=2) writes around the values of
\* the index document and of the config.
DocOpen == <<"{\n  \"version\": ">>
EntriesEmpty == <<",\n  \"entries\": []\n}">>
EntriesOpen == <<",\n  \"entries\": [\n">>
EntriesClose == <<"\n  ]\n}">>
PathKey == <<"    {\n      \"path\": \"">>
ModeKey == <<"\",\n      \"mode\": \"">>
BlobHashKey == <<"\",\n      \"blob_hash\": \"">>
SizeKey == <<"\",\n      \"size\": ">>
MtimeKey == <<",\n      \"mtime\": ">>
StageKey == <<",\n      \"stage\": ">>
EntryClose == <<"\n    }">>
EntrySep == <<",\n">>
UserKey == <<"{\n  \"core\": {\n    \"bare\": false,\n    \"repositoryformatversion\": 0\n  },\n  \"user\": {\n    \"name\": \"">>
EmailKey == <<"\",\n    \"email\": \"">>
UserClose == <<"\"\n  }\n}">>

\* a JSON string or number as json.dump writes it between the pieces
dump_scalar(j) == j.v

\* one entry of the document: asdict keeps the order of the fields
dump_entry(e) ==
    <<PathKey>> \o dump_scalar(e["path"]) \o <<ModeKey>> \o dump_scalar(e["mode"])
    \o <<BlobHashKey>> \o dump_scalar(e["blob_hash"]) \o <<SizeKey>> \o dump_scalar(e["size"])
    \o <<MtimeKey>> \o dump_scalar(e["mtime"]) \o <<StageKey>> \o dump_scalar(e["stage"])
    \o <<EntryClose>>

RECURSIVE dump_items(_)
dump_items(items) ==
    IF items = <<>> THEN <<>>
    ELSE dump_entry(Head(items).v)
         \o (IF Len(items) > 1 THEN <<EntrySep>> ELSE <<>>) \o dump_items(Tail(items))

\* json.dump(data, f, indent=2) of the document save() writes
dump_index(doc) ==
    <<DocOpen>> \o dump_scalar(doc.v["version"])
    \o (IF doc.v["entries"].v = <<>> THEN <<EntriesEmpty>>
        ELSE <<EntriesOpen>> \o dump_items(doc.v["entries"].v) \o <<EntriesClose>>)

\* json.dump(self.config, f, indent=2): the core section init() writes, which
\* nothing changes, and the user section
dump_config(config) ==
    <<UserKey>> \o config["user"].name \o <<EmailKey>> \o config["user"].email
    \o <<UserClose>>

PYGIT == <<".pygit">>
HeadPath == <<PYGIT, <<"/">>, <<"HEAD">>>>
ConfigPath == <<PYGIT, <<"/">>, <<"config">>>>
IndexPath == <<PYGIT, <<"/">>, <<"index">>>>

\* the time of the last write in the metadata directory
Clock(m) ==
    IF DOMAIN m.mtime = {} THEN 0
    ELSE CHOOSE t \in Range(m.mtime) : \A u \in Range(m.mtime) : u <= t

\* a file of the metadata directory is written: its st_mtime is the time of
\* the write, later than every write before it
Touch(m, path) ==
    [p \in DOMAIN m.mtime \cup {path} |-> IF p = path THEN Clock(m) + 1 ELSE m.mtime[p]]

\* Repository.init as the file system saw it: config written, then HEAD
init_files(m) == [m EXCEPT !.mtime = Touch([m EXCEPT !.mtime = Touch(m, ConfigPath)], HeadPath)]

\* Index.save() as the file system sees it
save_index(m, entries) ==
    [m EXCEPT !.index = Index_save(entries), !.mtime = Touch(m, IndexPath)]

\* the files of .pygit as the file system shows them
MetaFiles(m) ==
    (IF IsNone(m.HEAD) THEN EmptyFn
     ELSE HeadPath :> StatFile(Val(m.HEAD), m.mtime[HeadPath]))
    @@ (IF IsNone(m.config) \/ ~Val(m.config).json THEN EmptyFn
        ELSE ConfigPath :> StatFile(dump_config(Val(m.config).value), m.mtime[ConfigPath]))
    @@ (IF IsNone(m.index) THEN EmptyFn
        ELSE IndexPath :> StatFile(dump_index(Val(m.index).value), m.mtime[IndexPath]))

\* every regular file below the root
AllFiles(dir, m) == dir @@ MetaFiles(m)

InMetadata(path) == path # <<>> /\ Head(path) = PYGIT

\* the entries of a sequence that are in a set, in the order of the sequence
RECURSIVE Select(_, _)
Select(q, S) ==
    IF q = <<>> THEN <<>>
    ELSE (IF Head(q) \in S THEN <<Head(q)>> ELSE <<>>) \o Select(Tail(q), S)

\* What an add leaves: the entries, the metadata directory, and the error raised.
AddOutcome(ok, err, entries, m) == [ok |-> ok, err |-> err, entries |-> entries, meta |-> m]

\* index.add_file(path) of a regular file, with the save() that ends it
add_file(entries, dir, m, path) ==
    LET r == Index_add_file(entries, AllFiles(dir, m), path, Str("100644")) IN
    AddOutcome(r.ok, r.err, r.entries, save_index(m, r.entries))

\* index.add_file for each path of a list that is a regular file
RECURSIVE add_each(_, _, _, _)
add_each(entries, dir, m, paths) ==
    IF paths = <<>> THEN AddOutcome(TRUE, "", entries, m)
    ELSE IF Head(paths) \notin DOMAIN AllFiles(dir, m)
    THEN add_each(entries, dir, m, Tail(paths))
    ELSE CHOOSE out \in {add_each(r.entries, dir, r.meta, Tail(paths)) :
                            r \in {add_file(entries, dir, m, Head(paths))}} : TRUE

\* _add_directory_recursive(directory): rglob lists the directory itself,
\* visits its files, and only then lists the directory below it; order is
\* the order in which the file system lists names
add_directory_recursive(entries, dir, m, directory, order) ==
    IF directory = Str(".")
    THEN CHOOSE out \in {add_each(top.entries, dir, top.meta,
                                  Select(order, DOMAIN MetaFiles(top.meta))) :
                            top \in {add_each(entries, dir, m, Select(order, DOMAIN dir))}} :
             TRUE
    ELSE add_each(entries, dir, m, Select(order, DOMAIN MetaFiles(m)))

\* add(paths)
RECURSIVE Repository_add(_, _, _, _, _, _)
Repository_add(self, entries, dir, m, paths, order) ==
    IF ~self.is_valid_repo THEN AddOutcome(FALSE, "invalid repository", entries, m)
    ELSE IF paths = <<>> THEN AddOutcome(TRUE, "", entries, m)
    ELSE LET rel_path == Head(paths)
             done == IF rel_path \in DOMAIN AllFiles(dir, m)
                     THEN {add_file(entries, dir, m, rel_path)}
                     ELSE IF rel_path \in {Str("."), <<PYGIT>>}
                     THEN {add_directory_recursive(entries, dir, m, rel_path, order)}
                     ELSE {}
         IN IF done = {} THEN AddOutcome(FALSE, "FileNotFoundError", entries, m)
            ELSE CHOOSE out \in {Repository_add(self, r.entries, dir, r.meta, Tail(paths), order) :
                                    r \in done} : TRUE

get_tracked_files(entries) == {entries[i].path : i \in 1..Len(entries)}

get_modified_files(entries, files) ==
    {p \in get_tracked_files(entries) : Index_is_file_modified(entries, files, p)}

\* os.walk from the root, not descending into directories whose name starts
\* with a dot
get_untracked_files(entries, dir) == DOMAIN dir \ get_tracked_files(entries)

\* set(untracked) | set(modified)
all_files(entries, dir, m) ==
    get_untracked_files(entries, dir)
        \cup get_modified_files(entries, AllFiles(dir, m))

\* add_all(); order is the order in which the set all_files is iterated
Repository_add_all(self, entries, dir, m, order) ==
    IF ~self.is_valid_repo THEN AddOutcome(FALSE, "invalid repository", entries, m)
    ELSE add_each(entries, dir, m, order)

\* _get_current_branch()
get_current_branch(m) ==
    IF IsNone(m.HEAD) THEN Str("HEAD")
    ELSE LET content == Strip(Val(m.HEAD)) IN
         IF StartsWith(content, <<<<"ref: ">>>>) THEN DropChars(content, 5)
         ELSE Str("HEAD")

\* status(): ValueError on an invalid repository; the three lists as sets
Repository_status(self, entries, dir, m) ==
    IF ~self.is_valid_repo THEN [ok |-> FALSE, err |-> "invalid repository", value |-> <<>>]
    ELSE LET modified_files == get_modified_files(entries, AllFiles(dir, m))
             untracked_files == get_untracked_files(entries, dir)
         IN [ok |-> TRUE, err |-> "",
             value |-> [branch |-> get_current_branch(m),
                        head |-> self.head,
                        staged_files |-> get_tracked_files(entries),
                        modified_files |-> modified_files,
                        untracked_files |-> untracked_files,
                        is_clean |-> Cardinality(modified_files) = 0
                                     /\ Cardinality(untracked_files) = 0]]

(***************************************************************************)
(* SpecAdd: Repository objects on a root with two working files, the root  *)
(* initialised through one of them and the other opened before that; files *)
(* are written and deleted, and add, add_all and status are called.        *)
(***************************************************************************)
MaxCalls == 2
WorkPaths == {Str("a"), Str("b")}
MetaPaths == {HeadPath, ConfigPath, IndexPath}
AllPaths == WorkPaths \cup MetaPaths
AddArgs == AllPaths \cup {Str("."), <<PYGIT>>, Str("x")}
AddLists == {<<p>> : p \in AddArgs} \cup {<<Str("a"), Str("x")>>}

WorkFileChoices ==
    [a |-> {StatFile(Str("1"), 1), StatFile(Str("2"), 1), StatFile(Str("2"), 2)},
     b |-> {StatFile(Str("1"), 1)}]

\* the handle opened before the root was initialised
StaleRepo == 2

InitAdd ==
    LET r == Repository_init(Repository_new(NoMeta), NoMeta, EmptyFn) IN
    /\ objfiles = EmptyFn /\ stored = {} /\ tampered = EmptyFn
    /\ tree = Tree
    /\ wt = EmptyFn
    /\ meta = init_files(r.meta)
    /\ handle = (TheRepo :> Repository_new(r.meta)) @@ (StaleRepo :> Repository_new(NoMeta))
    /\ history = <<>> /\ clean = FALSE
    /\ index = (TheIndex :> [entries |-> <<>>])
    /\ NoTerminals
    /\ last = Idle

\* the state an add or add_all leaves
AddEffect(op, paths, r) ==
    /\ index' = [index EXCEPT ![TheIndex].entries = r.entries]
    /\ meta' = r.meta
    /\ history' = Append(history, op)
    /\ last' = [op |-> op, paths |-> paths, ok |-> r.ok, err |-> r.err]
    /\ UNCHANGED <<objfiles, stored, tampered, tree, wt, handle, clean,
                   terminals, uuids, pending>>

DoAdd ==
    /\ Len(history) < MaxCalls
    /\ \E h \in DOMAIN handle, paths \in AddLists, root \in Orders(DOMAIN wt),
          below \in Orders(MetaPaths) :
          AddEffect("add", paths,
                    Repository_add(handle[h], index[TheIndex].entries,
                                   wt, meta, paths, root \o below))

DoAddAll ==
    /\ Len(history) < MaxCalls
    /\ \E h \in DOMAIN handle,
          order \in Orders(all_files(index[TheIndex].entries, wt, meta)) :
          AddEffect("add_all", <<>>,
                    Repository_add_all(handle[h], index[TheIndex].entries,
                                       wt, meta, order))

DoStatus ==
    /\ \E h \in DOMAIN handle :
          LET r == Repository_status(handle[h], index[TheIndex].entries, wt, meta) IN
          last' = [op |-> "status", ok |-> r.ok, err |-> r.err, value |-> r.value]
    /\ UNCHANGED <<objfiles, stored, tampered, tree, wt, meta, handle, history, clean,
                   index, terminals, uuids, pending>>

\* a working file created or modified
WriteWorkFile ==
    \E n \in {"a", "b"} :
        \E node \in WorkFileChoices[n] :
            /\ wt' = [p \in DOMAIN wt \cup {Str(n)} |-> IF p = Str(n) THEN node ELSE wt[p]]
            /\ wt' # wt
            /\ last' = [op |-> "write", ok |-> TRUE, err |-> ""]
            /\ UNCHANGED <<objfiles, stored, tampered, tree, meta, handle, history, clean,
                           index, terminals, uuids, pending>>

DeleteWorkFile ==
    \E path \in DOMAIN wt :
        /\ wt' = [p \in DOMAIN wt \ {path} |-> wt[p]]
        /\ last' = [op |-> "delete", ok |-> TRUE, err |-> ""]
        /\ UNCHANGED <<objfiles, stored, tampered, tree, meta, handle, history, clean,
                       index, terminals, uuids, pending>>

NextAdd == DoAdd \/ DoAddAll \/ DoStatus \/ WriteWorkFile \/ DeleteWorkFile

SpecAdd == InitAdd /\ [][NextAdd]_vars

\* C29: after any sequence of add(paths) and add_all() calls, no index entry
\* has a path inside the metadata directory .pygit, and every path an add or
\* add_all put into the index was a regular file when it was added.
C29_IndexSkipsMetadata ==
    [][(last'.op \in {"add", "add_all"}) =>
          /\ \A i \in 1..Len(index'[TheIndex].entries) :
                ~InMetadata(index'[TheIndex].entries[i].path)
          /\ \A p \in get_tracked_files(index'[TheIndex].entries)
                        \ get_tracked_files(index[TheIndex].entries) :
                p \in DOMAIN AllFiles(wt, meta')]_vars

\* C30: a status() taken right after add_all() completed reports no modified
\* and no untracked file and is_clean, and in every status result the modified
\* files are staged files and no untracked file is a staged file.
C30_AddAllReachesClean ==
    [][(last'.op = "status" /\ last'.ok) =>
          /\ (last.op = "add_all" /\ last.ok) =>
                /\ last'.value.modified_files = {}
                /\ last'.value.untracked_files = {}
                /\ last'.value.is_clean
          /\ last'.value.modified_files \subseteq last'.value.staged_files
          /\ last'.value.untracked_files \cap last'.value.staged_files = {}]_vars

====
